---- MODULE Spec2Model ----
(***************************************************************************)
(* Wire-protocol message framing of microvisionchain: the header codec     *)
(* (CMessageHeader, protocol.h), the incoming message assembler            *)
(* (CNetMessage, net/net_message.h) and the size policy they consult.      *)
(*                                                                         *)
(* Unsigned 32-bit values are pairs <<hi, lo>> of 16-bit limbs and         *)
(* unsigned 64-bit values are 4-tuples of 16-bit limbs, most significant   *)
(* first, so that 0xFFFFFFFF and lengths beyond it are exact.  On the wire *)
(* they are little-endian byte strings.                                    *)
(***************************************************************************)
EXTENDS Integers, Sequences, FiniteSets, TLC

VARIABLES
    maxRecvPayloadLength, \* Config: the configured maximum receive payload length
    pc,                   \* "idle": nothing on the wire; "recv": bytes are being received; "done": dispatched; "reset": connection reset
    wire,                 \* the bytes the peer put on the connection
    pos,                  \* number of bytes of wire the assembler has consumed
    sentHdr,              \* the header the peer serialised (for comparison with the parsed one)
    sentMsg,              \* the message this implementation's send path encoded, if it produced wire
    hdr,                  \* CNetMessage::hdr
    dataBuff,             \* CNetMessage::dataBuff
    hasher,               \* CNetMessage::hasher (running CHash256 state)
    data_hash,            \* CNetMessage::data_hash (finalised hash, null until first GetMessageHash)
    banPeer,              \* a BanPeer exception has reached the connection
    outcome,              \* error kind reported for the current message
    delivered,            \* messages handed to the dispatch collaborator
    offeredAll,           \* every Read call so far was offered all bytes not yet consumed
    hashReturned,         \* the values GetMessageHash() returned for the current message, in order
    vInv,                 \* a vector of CInv as it was filled
    vInvSorted,           \* the vector after std::sort, <<>> before
    estimate,             \* <<argument, result>> of a call of CInv::estimateMaxInvElements, <<>> before
    invStream,            \* the bytes of the stream a CInv is read from
    invDecoded,           \* <<the CInv read from invStream>>, <<>> before and when reading threw
    protoconf,            \* <<the CProtoconf object at hand>>, <<>> while there is none
    vRecv,                \* the bytes of the stream a CProtoconf is read from
    nReadPos,             \* the number of bytes of vRecv that were read
    vSend,                \* the bytes of the stream a CProtoconf was written to
    protoconfState,       \* what was last done with a CProtoconf and how it ended
    connWire,             \* per connection: the bytes its peer put on it, <<>> before
    connMsg,              \* per connection: its CNetMessage
    connPos,              \* per connection: the number of bytes of connWire its assembler consumed
    connThrown,           \* per connection: the exception that reached it
    readLog,              \* the Read calls of all connections in the order they ran: <<connection, nBytes>>
    mutex,                \* the thread that holds the std::mutex, 0 when it is free
    lock,                 \* per thread: its Lock (std::unique_lock) as <<mutex or none, owns>>
    templock,             \* per thread: reverse_lock::templock as <<mutex or none, owns>>
    rlPc,                 \* per thread: where it is in its use of the mutex
    flag,                 \* CThreadInterrupt::flag
    mut,                  \* CThreadInterrupt::mut: the thread that holds it, 0 when it is free
    cond,                 \* CThreadInterrupt::cond: the threads blocked on it
    tiPc,                 \* per thread: where it is in its call on the CThreadInterrupt
    sleepReturned,        \* per thread: how its last sleep_for ended, "none" while it runs
    callOverlapped,       \* per thread: reset() was called since its operator()() began
    callReturned,         \* an operator()() has returned and reset() was not called since it began
    resetQuiet,           \* reset() was called and no operator()() ran at that time or since
    boolRead,             \* <<callReturned, resetQuiet, value>> at the last operator bool(), <<>> before
    mapCommands,          \* CRPCTable::mapCommands: a command for each registered name
    fRPCRunning,          \* the RPC server is running (IsRPCRunning())
    appended,             \* the last appendCommand: <<name, pcmd, table before, running, returned>>, <<>> before
    g_signals,            \* per signal of g_signals: its slots in the order they were connected, <<method, interface>>
    lastCall              \* per interface: <<its last call, the number of its registrations when the call began>>

\* The message framing of one connection
framingVars == <<maxRecvPayloadLength, pc, wire, pos, sentHdr, sentMsg, hdr, dataBuff,
                 hasher, data_hash, banPeer, outcome, delivered, offeredAll, hashReturned>>

\* Inventory items
invVars == <<vInv, vInvSorted, estimate, invStream, invDecoded>>

\* The protoconf codec
protoconfVars == <<protoconf, vRecv, nReadPos, vSend, protoconfState>>

\* Two connections, each with its own assembler
connVars == <<connWire, connMsg, connPos, connThrown, readLog>>

\* Threads sharing a mutex through Lock and reverse_lock
lockVars == <<mutex, lock, templock, rlPc>>

\* A CThreadInterrupt and the threads that use it
interruptVars == <<flag, mut, cond, tiPc, sleepReturned, callOverlapped, callReturned, resetQuiet, boolRead>>

\* The RPC dispatch table
rpcVars == <<mapCommands, fRPCRunning, appended>>

\* The validation signals and the interfaces registered on them
signalVars == <<g_signals, lastCall>>

vars == <<maxRecvPayloadLength, pc, wire, pos, sentHdr, sentMsg, hdr, dataBuff,
          hasher, data_hash, banPeer, outcome, delivered, offeredAll, hashReturned,
          vInv, vInvSorted, estimate, invStream, invDecoded,
          protoconf, vRecv, nReadPos, vSend, protoconfState,
          connWire, connMsg, connPos, connThrown, readLog,
          mutex, lock, templock, rlPc,
          flag, mut, cond, tiPc, sleepReturned, callOverlapped, callReturned, resetQuiet, boolRead,
          mapCommands, fRPCRunning, appended,
          g_signals, lastCall>>

-----------------------------------------------------------------------------
(* Bounds of the model *)

\* Largest number of bytes that follow a header on the wire.
MaxFollow == 2

\* Largest number of GetMessageHash() calls on one message.
MaxHashCalls == 2

\* The number of Read calls of one connection, where connections interleave
MaxReads == 3

\* Largest number of registrations of one validation interface in force
MaxRegistrations == 2

-----------------------------------------------------------------------------
(* Fixed-width unsigned integers *)

Limb == 256 * 256

Min(a, b) == IF a <= b THEN a ELSE b

Zeros(n) == [i \in 1..n |-> 0]

Take(s, n) == SubSeq(s, 1, n)

Drop(s, n) == SubSeq(s, n + 1, Len(s))

\* std::numeric_limits<uint32_t>::max()
U32Max == <<Limb - 1, Limb - 1>>

NatU32(n) == <<n \div Limb, n % Limb>>

NatU64(n) == <<0, 0, n \div Limb, n % Limb>>

U32ToU64(v) == <<0, 0, v[1], v[2]>>

\* a < b on uint64_t
U64Less(a, b) ==
    \E i \in 1..4 : a[i] < b[i] /\ \A j \in 1..(i - 1) : a[j] = b[j]

\* a + b on uint64_t (wraps at 2^64)
U64Add(a, b) ==
    LET s4 == a[4] + b[4]
        s3 == a[3] + b[3] + (s4 \div Limb)
        s2 == a[2] + b[2] + (s3 \div Limb)
        s1 == a[1] + b[1] + (s2 \div Limb)
    IN  <<s1 % Limb, s2 % Limb, s3 % Limb, s4 % Limb>>

\* serialize.h: a uint32_t is written as 4 little-endian bytes
WriteLE32(v) == <<v[2] % 256, v[2] \div 256, v[1] % 256, v[1] \div 256>>

ReadLE32(b) == <<b[3] + 256 * b[4], b[1] + 256 * b[2]>>

\* serialize.h: a uint64_t is written as 8 little-endian bytes
WriteLE64(v) ==
    <<v[4] % 256, v[4] \div 256, v[3] % 256, v[3] \div 256,
      v[2] % 256, v[2] \div 256, v[1] % 256, v[1] \div 256>>

ReadLE64(b) ==
    <<b[7] + 256 * b[8], b[5] + 256 * b[6], b[3] + 256 * b[4], b[1] + 256 * b[2]>>

-----------------------------------------------------------------------------
(* protocol.h: constants *)

DEFAULT_MAX_PROTOCOL_RECV_PAYLOAD_LENGTH == 2 * 1024 * 1024

ONE_GIGABYTE == 1000 * 1000 * 1000

\* the maximum is the default maximum
MaxRecvIsDefault == DEFAULT_MAX_PROTOCOL_RECV_PAYLOAD_LENGTH

MAX_PROTOCOL_RECV_PAYLOAD_LENGTH == ONE_GIGABYTE

MESSAGE_START_SIZE == 4

COMMAND_SIZE == 12

CHECKSUM_SIZE == 4

BASIC_MESSAGE_SIZE_SIZE == 4

BASIC_MESSAGE_SIZE_OFFSET == MESSAGE_START_SIZE + COMMAND_SIZE

CHECKSUM_OFFSET == BASIC_MESSAGE_SIZE_OFFSET + BASIC_MESSAGE_SIZE_SIZE

BASIC_COMMAND_OFFSET == MESSAGE_START_SIZE

EXTENDED_MESSAGE_SIZE_SIZE == 8

\* the command is counted with a terminating NUL
BasicHeaderSizeCommandNul ==
    MESSAGE_START_SIZE + (COMMAND_SIZE + 1) + BASIC_MESSAGE_SIZE_SIZE + CHECKSUM_SIZE

BASIC_HEADER_SIZE ==
    MESSAGE_START_SIZE + COMMAND_SIZE + BASIC_MESSAGE_SIZE_SIZE + CHECKSUM_SIZE

\* the extended command is counted with a terminating NUL
ExtendedHeaderSizeCommandNul ==
    MESSAGE_START_SIZE + COMMAND_SIZE + BASIC_MESSAGE_SIZE_SIZE + CHECKSUM_SIZE
        + (COMMAND_SIZE + 1) + EXTENDED_MESSAGE_SIZE_SIZE

EXTENDED_HEADER_SIZE ==
    MESSAGE_START_SIZE + COMMAND_SIZE + BASIC_MESSAGE_SIZE_SIZE + CHECKSUM_SIZE
        + COMMAND_SIZE + EXTENDED_MESSAGE_SIZE_SIZE

-----------------------------------------------------------------------------
(* Network magic and the message type registry *)

\* The configured network magic (Config / chain parameters).
NetMagic == <<227, 225, 243, 232>>

\* The magic of some other network.
OtherMagic == <<250, 191, 181, 218>>

\* NetMsgType::PING, "ping"
PING == <<112, 105, 110, 103>>

\* NetMsgType::TX, "tx"
TX == <<116, 120>>

\* NetMsgType::BLOCK, "block"
BLOCK == <<98, 108, 111, 99, 107>>

\* NetMsgType::MERKLEBLOCK, "merkleblock"
MERKLEBLOCK == <<109, 101, 114, 107, 108, 101, 98, 108, 111, 99, 107>>

\* NetMsgType::BLOCKTXN, "blocktxn"
BLOCKTXN == <<98, 108, 111, 99, 107, 116, 120, 110>>

\* NetMsgType::EXTMSG, "extmsg"
EXTMSG == <<101, 120, 116, 109, 115, 103>>

\* A printable command that is not a message type, "zz"
UNKNOWN_CMD == <<122, 122>>

\* getAllNetMessageTypes(): the message types of the model
AllNetMessageTypes == {PING, TX, BLOCK, MERKLEBLOCK, BLOCKTXN, EXTMSG}

\* NetMsgType::IsBlockLike
IsBlockLike(strCommand) == strCommand \in {BLOCK, MERKLEBLOCK, BLOCKTXN}

\* NetMsgType::GetMaxMessageLength
GetMaxMessageLength(command, maxRecv) ==
    IF IsBlockLike(command)
    THEN NatU64(MAX_PROTOCOL_RECV_PAYLOAD_LENGTH)
    ELSE NatU64(maxRecv)

-----------------------------------------------------------------------------
(* hash.h: CHash256, the double hash, over a small state space *)

HashMod == 251

HashInit == 17

RECURSIVE HashWrite(_, _)
\* CHash256::Write: absorb the bytes one by one into the running state
HashWrite(h, bytes) ==
    IF bytes = <<>> THEN h
    ELSE HashWrite((h * 31 + bytes[1] + 1) % HashMod, Tail(bytes))

HashRound(x) == (x * x + 3 * x + 5) % HashMod

\* CHash256::Finalize: two rounds, then the 32 bytes of the uint256
HashFinalize(h) ==
    LET r1 == HashRound(h)
        r2 == HashRound(r1 + 1)
    IN  [i \in 1..32 |-> IF i = 1 THEN 1 + (r2 % 255) ELSE (r2 * i + r1 + i * i) % 256]

\* Hash(begin, end): the double hash of a byte string computed in one go
Hash256(bytes) == HashFinalize(HashWrite(HashInit, bytes))

\* uint256::IsNull
IsNull(u) == \A i \in 1..Len(u) : u[i] = 0

-----------------------------------------------------------------------------
(* protocol.h: CExtendedMessageHeader and CMessageHeader *)

\* CMessageHeader(pchMessageStartIn): the header of a message not yet received
CMessageHeader_New(pchMessageStartIn) ==
    [pchMessageStart |-> pchMessageStartIn,
     pchCommand |-> Zeros(COMMAND_SIZE),
     nPayloadLength |-> U32Max,
     pchChecksum |-> Zeros(CHECKSUM_SIZE),
     extendedFields |-> <<>>,
     complete |-> FALSE]

\* strncpy of a command into the zero-initialised 12-byte field
PadCommand(cmd) == cmd \o Zeros(COMMAND_SIZE - Len(cmd))

RECURSIVE StrNLen(_)
\* strnlen: the number of bytes before the first NUL
StrNLen(bytes) ==
    IF bytes = <<>> \/ bytes[1] = 0 THEN 0 ELSE 1 + StrNLen(Tail(bytes))

\* std::string(pchCommand, pchCommand + strnlen(pchCommand, COMMAND_SIZE))
CommandString(field) == Take(field, StrNLen(field))

\* CExtendedMessageHeader(): default member initialisers
CExtendedMessageHeader_Default ==
    [pchCommand |-> Zeros(COMMAND_SIZE),
     nPayloadLength |-> <<Limb - 1, Limb - 1, Limb - 1, Limb - 1>>]

\* CExtendedMessageHeader(pszCommand, nPayloadLengthIn)
CExtendedMessageHeader_New(pszCommand, nPayloadLengthIn) ==
    [pchCommand |-> PadCommand(pszCommand), nPayloadLength |-> nPayloadLengthIn]

\* CExtendedMessageHeader::SerializationOp, writing
ExtSerialize(e) == e.pchCommand \o WriteLE64(e.nPayloadLength)

\* only the low four bytes of the extended length are read
ExtUnserializeShortLength(bytes) ==
    [pchCommand |-> SubSeq(bytes, 1, COMMAND_SIZE),
     nPayloadLength |->
        U32ToU64(ReadLE32(SubSeq(bytes, COMMAND_SIZE + 1, COMMAND_SIZE + BASIC_MESSAGE_SIZE_SIZE)))]

\* CExtendedMessageHeader::SerializationOp, reading
ExtUnserialize(bytes) ==
    [pchCommand |-> SubSeq(bytes, 1, COMMAND_SIZE),
     nPayloadLength |->
        ReadLE64(SubSeq(bytes, COMMAND_SIZE + 1, COMMAND_SIZE + EXTENDED_MESSAGE_SIZE_SIZE))]

\* the test of the static IsExtended(payloadSize) applied to the extended length
IsExtendedConfused(h) ==
    h.extendedFields # <<>>
    /\ U64Less(U32ToU64(U32Max), h.extendedFields[1].nPayloadLength)

\* CMessageHeader::IsExtended(): extendedFields.has_value()
IsExtended(h) == h.extendedFields # <<>>

\* an extended header never counts as complete
HeaderCompleteBasicOnly(h) == h.complete /\ h.extendedFields = <<>>

\* CMessageHeader::Complete()
HeaderComplete(h) == h.complete

\* CMessageHeader::GetChecksum()
GetChecksum(h) == h.pchChecksum

\* CMessageHeader::GetMsgStart()
GetMsgStart(h) == h.pchMessageStart

\* the checksum is written back to front
SerializeChecksumReversed(h) ==
    h.pchMessageStart \o h.pchCommand \o WriteLE32(h.nPayloadLength)
    \o [i \in 1..CHECKSUM_SIZE |-> h.pchChecksum[CHECKSUM_SIZE + 1 - i]]
    \o (IF IsExtended(h) THEN ExtSerialize(h.extendedFields[1]) ELSE <<>>)

\* the checksum is written before the length
SerializeChecksumFirst(h) ==
    h.pchMessageStart \o h.pchCommand \o h.pchChecksum \o WriteLE32(h.nPayloadLength)
    \o (IF IsExtended(h) THEN ExtSerialize(h.extendedFields[1]) ELSE <<>>)

\* CMessageHeader::SerializationOp, writing: magic, command, length, checksum
\* and, for an extended header, the extended fields
Serialize(h) ==
    h.pchMessageStart \o h.pchCommand \o WriteLE32(h.nPayloadLength) \o h.pchChecksum
    \o (IF IsExtended(h) THEN ExtSerialize(h.extendedFields[1]) ELSE <<>>)

\* Variants of the reading side with one field read differently
UnserializeFields(h, bytes, magicAt, lengthAt, checksumAt, keepMagic, readExtended) ==
    [h EXCEPT
        !.pchMessageStart =
            IF keepMagic THEN h.pchMessageStart
            ELSE SubSeq(bytes, magicAt + 1, magicAt + MESSAGE_START_SIZE),
        !.pchCommand = SubSeq(bytes, BASIC_COMMAND_OFFSET + 1, BASIC_COMMAND_OFFSET + COMMAND_SIZE),
        !.nPayloadLength = ReadLE32(SubSeq(bytes, lengthAt + 1, lengthAt + BASIC_MESSAGE_SIZE_SIZE)),
        !.pchChecksum = SubSeq(bytes, checksumAt + 1, checksumAt + CHECKSUM_SIZE),
        !.extendedFields =
            IF readExtended /\ IsExtended(h)
            THEN <<ExtUnserialize(SubSeq(bytes, BASIC_HEADER_SIZE + 1, EXTENDED_HEADER_SIZE))>>
            ELSE <<>>]

\* the magic of the constructor is kept instead of the magic received
UnserializeKeepsMagic(h, bytes) ==
    UnserializeFields(h, bytes, 0, BASIC_MESSAGE_SIZE_OFFSET, CHECKSUM_OFFSET, TRUE, TRUE)

\* the checksum is read before the length
UnserializeChecksumFirst(h, bytes) ==
    UnserializeFields(h, bytes, 0, BASIC_MESSAGE_SIZE_OFFSET + CHECKSUM_SIZE,
                      BASIC_MESSAGE_SIZE_OFFSET, FALSE, TRUE)

\* the extended fields are never read
UnserializeDropsExtended(h, bytes) ==
    UnserializeFields(h, bytes, 0, BASIC_MESSAGE_SIZE_OFFSET, CHECKSUM_OFFSET, FALSE, FALSE)

\* the checksum is read one byte early
UnserializeChecksumOffByOne(h, bytes) ==
    UnserializeFields(h, bytes, 0, BASIC_MESSAGE_SIZE_OFFSET, CHECKSUM_OFFSET - 1, FALSE, TRUE)

\* the command is read one byte late
UnserializeCommandOffset(h, bytes) ==
    [UnserializeFields(h, bytes, 0, BASIC_MESSAGE_SIZE_OFFSET, CHECKSUM_OFFSET, FALSE, TRUE)
        EXCEPT !.pchCommand =
            SubSeq(bytes, BASIC_COMMAND_OFFSET + 2, BASIC_COMMAND_OFFSET + COMMAND_SIZE) \o <<0>>]

\* the magic is read one byte late
UnserializeMagicOffset(h, bytes) ==
    UnserializeFields(h, bytes, 1, BASIC_MESSAGE_SIZE_OFFSET, CHECKSUM_OFFSET, FALSE, TRUE)

\* CMessageHeader::SerializationOp, reading: the same fields in the same order;
\* the extended fields are read only when the header already holds them
Unserialize(h, bytes) ==
    [h EXCEPT
        !.pchMessageStart = SubSeq(bytes, 1, MESSAGE_START_SIZE),
        !.pchCommand = SubSeq(bytes, BASIC_COMMAND_OFFSET + 1, BASIC_COMMAND_OFFSET + COMMAND_SIZE),
        !.nPayloadLength =
            ReadLE32(SubSeq(bytes, BASIC_MESSAGE_SIZE_OFFSET + 1,
                            BASIC_MESSAGE_SIZE_OFFSET + BASIC_MESSAGE_SIZE_SIZE)),
        !.pchChecksum = SubSeq(bytes, CHECKSUM_OFFSET + 1, CHECKSUM_OFFSET + CHECKSUM_SIZE),
        !.extendedFields =
            IF IsExtended(h)
            THEN <<ExtUnserialize(SubSeq(bytes, BASIC_HEADER_SIZE + 1, EXTENDED_HEADER_SIZE))>>
            ELSE <<>>]

\* CMessageHeader::IsExtended(payloadSize): the length does not fit the basic
\* length field, or is the sentinel
IsExtendedSize(payloadSize) == ~U64Less(payloadSize, U32ToU64(U32Max))

\* CMessageHeader::GetHeaderSizeForPayload
GetHeaderSizeForPayload(payloadSize) ==
    IF IsExtendedSize(payloadSize) THEN EXTENDED_HEADER_SIZE ELSE BASIC_HEADER_SIZE

\* CMessageHeader(pchMessageStartIn, pszCommand, nPayloadLengthIn, payloadHash):
\* the header of a message to send
CMessageHeader_ForSend(pchMessageStartIn, pszCommand, nPayloadLengthIn, payloadHash) ==
    IF IsExtendedSize(nPayloadLengthIn)
    THEN [pchMessageStart |-> pchMessageStartIn,
          pchCommand |-> PadCommand(EXTMSG),
          nPayloadLength |-> U32Max,
          pchChecksum |-> Take(payloadHash, CHECKSUM_SIZE),
          extendedFields |-> <<CExtendedMessageHeader_New(pszCommand, nPayloadLengthIn)>>,
          complete |-> TRUE]
    ELSE [pchMessageStart |-> pchMessageStartIn,
          pchCommand |-> PadCommand(pszCommand),
          nPayloadLength |-> <<nPayloadLengthIn[3], nPayloadLengthIn[4]>>,
          pchChecksum |-> Take(payloadHash, CHECKSUM_SIZE),
          extendedFields |-> <<>>,
          complete |-> TRUE]

\* CMessageHeader::GetCommand(): the extended command of an extended header
GetCommand(h) ==
    IF IsExtended(h)
    THEN CommandString(h.extendedFields[1].pchCommand)
    ELSE CommandString(h.pchCommand)

\* CMessageHeader::GetLength(): the size of the header itself
GetLength(h) == IF IsExtended(h) THEN EXTENDED_HEADER_SIZE ELSE BASIC_HEADER_SIZE

\* CMessageHeader::GetPayloadLength(): the extended length of an extended header
GetPayloadLength(h) ==
    IF IsExtended(h)
    THEN h.extendedFields[1].nPayloadLength
    ELSE U32ToU64(h.nPayloadLength)

\* A command field is a NUL-terminated printable token: printable characters,
\* then only NULs
IsCommandToken(pchCommand) ==
    LET n == StrNLen(pchCommand)
    IN  /\ \A i \in 1..n : pchCommand[i] >= 32 /\ pchCommand[i] <= 126
        /\ \A i \in (n + 1)..Len(pchCommand) : pchCommand[i] = 0

\* CMessageHeader::CheckHeaderMagicAndCommand
CheckHeaderMagicAndCommand(h, magic) ==
    h.pchMessageStart = magic /\ IsCommandToken(h.pchCommand)

\* CMessageHeader::IsValid
IsValid(h) ==
    /\ CheckHeaderMagicAndCommand(h, NetMagic)
    /\ IsExtended(h) => IsCommandToken(h.extendedFields[1].pchCommand)

\* CMessageHeader::IsOversized
IsOversized(h, maxRecv) ==
    U64Less(GetMaxMessageLength(GetCommand(h), maxRecv), GetPayloadLength(h))

\* CMessageHeader::Read(pch, numBytes, buff): the raw header bytes are gathered
\* in buff; the basic header is parsed once 24 bytes are there and, when its
\* length field is the sentinel, the extended fields once 44 bytes are there.
\* Parsing empties buff.  The result is the header, the buffer and the number
\* of bytes consumed.
HeaderRead(h, buff, pch) ==
    LET n1 == IF Len(buff) < BASIC_HEADER_SIZE
              THEN Min(BASIC_HEADER_SIZE - Len(buff), Len(pch))
              ELSE 0
        b1 == buff \o Take(pch, n1)
        basic == Unserialize(CMessageHeader_New(h.pchMessageStart), b1)
    IN  IF Len(b1) < BASIC_HEADER_SIZE
        THEN [hdr |-> h, buff |-> b1, numRead |-> n1]
        ELSE IF basic.nPayloadLength # U32Max
        THEN [hdr |-> [basic EXCEPT !.complete = TRUE], buff |-> <<>>, numRead |-> n1]
        ELSE LET n2 == Min(EXTENDED_HEADER_SIZE - Len(b1), Len(pch) - n1)
                 b2 == b1 \o SubSeq(pch, n1 + 1, n1 + n2)
                 ext == [CMessageHeader_New(h.pchMessageStart)
                            EXCEPT !.extendedFields = <<CExtendedMessageHeader_Default>>]
             IN  IF Len(b2) < EXTENDED_HEADER_SIZE
                 THEN [hdr |-> h, buff |-> b2, numRead |-> n1 + n2]
                 ELSE [hdr |-> [Unserialize(ext, b2) EXCEPT !.complete = TRUE],
                       buff |-> <<>>, numRead |-> n1 + n2]

-----------------------------------------------------------------------------
(* protocol.h: CInv *)

\* a < b on uint32_t
U32Less(a, b) == a[1] < b[1] \/ (a[1] = b[1] /\ a[2] < b[2])

\* a - b on uint32_t (wraps at 2^32)
U32Sub(a, b) ==
    LET d2 == a[2] - b[2]
        d1 == a[1] - b[1] - (IF d2 < 0 THEN 1 ELSE 0)
    IN  <<(d1 + Limb) % Limb, (d2 + Limb) % Limb>>

\* a / d on uint32_t, for a divisor below 2^15
U32Div(a, d) ==
    <<a[1] \div d, ((a[1] % d) * Limb + a[2]) \div d>>

\* a >> n on uint32_t, for n below 16
U32ShiftRight(a, n) ==
    <<a[1] \div (2 ^ n), (a[2] \div (2 ^ n)) + (a[1] % (2 ^ n)) * (Limb \div (2 ^ n))>>

RECURSIVE BitAnd(_, _)
\* a & b on one limb
BitAnd(a, b) ==
    IF a = 0 \/ b = 0 THEN 0
    ELSE (a % 2) * (b % 2) + 2 * BitAnd(a \div 2, b \div 2)

\* a & b on uint32_t
U32And(a, b) == <<BitAnd(a[1], b[1]), BitAnd(a[2], b[2])>>

\* const uint32_t MSG_TYPE_MASK = 0xffffffff >> 3
MSG_TYPE_MASK == U32ShiftRight(U32Max, 3)

\* enum GetDataMsg
UNDEFINED == 0

MSG_TX == 1

MSG_BLOCK == 2

MSG_FILTERED_BLOCK == 3

MSG_CMPCT_BLOCK == 4

\* CInv(typeIn, hashIn)
CInv_New(typeIn, hashIn) == [type |-> typeIn, hash |-> hashIn]

RECURSIVE Uint256Less(_, _)
\* operator< on uint256: the bytes are compared in order, the first that
\* differs decides
Uint256Less(a, b) ==
    IF a = <<>> \/ b = <<>> THEN FALSE
    ELSE IF a[1] # b[1] THEN a[1] < b[1]
    ELSE Uint256Less(Tail(a), Tail(b))

\* the hash decides whenever it is smaller, whatever the types
InvLessNoTypeTie(a, b) ==
    U32Less(a.type, b.type) \/ Uint256Less(a.hash, b.hash)

\* friend bool operator<(const CInv &a, const CInv &b)
InvLess(a, b) ==
    U32Less(a.type, b.type) \/ (a.type = b.type /\ Uint256Less(a.hash, b.hash))

\* friend bool operator==(const CInv &a, const CInv &b)
InvEq(a, b) == a.type = b.type /\ a.hash = b.hash

\* the type is not masked
GetKindUnmasked(inv) == inv.type

\* CInv::GetKind
GetKind(inv) == U32And(inv.type, MSG_TYPE_MASK)

\* CInv::IsTx
IsTx(inv) ==
    LET k == GetKind(inv)
    IN  k = NatU32(MSG_TX)

\* every kind from MSG_BLOCK up is a block
IsSomeBlockFromBlockUp(inv) ==
    LET k == GetKind(inv)
    IN  ~U32Less(k, NatU32(MSG_BLOCK))

\* CInv::IsSomeBlock
IsSomeBlock(inv) ==
    LET k == GetKind(inv)
    IN  k = NatU32(MSG_BLOCK) \/ k = NatU32(MSG_FILTERED_BLOCK) \/ k = NatU32(MSG_CMPCT_BLOCK)

\* CInv::estimateMaxInvElements:
\* (maxPayloadLength - 8) / (4 + 32) on unsigned int
estimateMaxInvElements(maxPayloadLength) ==
    U32Div(U32Sub(maxPayloadLength, NatU32(8)), 4 + 32)

\* The size of a CInv on the wire: READWRITE(type) and READWRITE(hash)
InvWireSize == 4 + 32

\* CInv::SerializationOp, writing: the type little-endian, then the hash
InvSerialize(inv) == WriteLE32(inv.type) \o inv.hash

\* CInv::SerializationOp, reading: <<the item>>, or <<>> when the stream ends
\* before the item does and reading throws.  No value of type is refused.
InvUnserialize(bytes) ==
    IF Len(bytes) < InvWireSize
    THEN <<>>
    ELSE <<CInv_New(ReadLE32(Take(bytes, 4)), SubSeq(bytes, 5, InvWireSize))>>

RECURSIVE InsertInv(_, _)
\* std::sort, one insertion: x moves left past every element it is less than
InsertInv(v, x) ==
    IF v = <<>> THEN <<x>>
    ELSE IF InvLess(x, v[Len(v)])
    THEN Append(InsertInv(Take(v, Len(v) - 1), x), v[Len(v)])
    ELSE Append(v, x)

RECURSIVE SortInvs(_)
\* std::sort(v.begin(), v.end()) with operator<
SortInvs(v) ==
    IF v = <<>> THEN <<>>
    ELSE InsertInv(SortInvs(Take(v, Len(v) - 1)), v[Len(v)])

-----------------------------------------------------------------------------
(* protocol.h: CProtoconf *)

\* static constexpr size_t MAX_NUM_STREAM_POLICIES {10}
MAX_NUM_STREAM_POLICIES == 10

\* MAX_STREAM_POLICY_NAME_LENGTH, the longest name of a stream policy
MAX_STREAM_POLICY_NAME_LENGTH == 64

\* The limit of LIMITED_STRING(streamPolicies, ...)
StreamPoliciesLimit == (MAX_STREAM_POLICY_NAME_LENGTH + 1) * MAX_NUM_STREAM_POLICIES

\* WriteCompactSize, for sizes below 2^31: one byte below 253, the marker 253
\* and 2 bytes up to 0xFFFF, the marker 254 and 4 bytes above
WriteCompactSize(nSize) ==
    IF nSize < 253 THEN <<nSize>>
    ELSE IF nSize < Limb THEN <<253, nSize % 256, nSize \div 256>>
    ELSE <<254>> \o WriteLE32(NatU32(nSize))

\* The number of bytes ReadCompactSize needs, given the first
CompactSizeLength(chSize) ==
    IF chSize < 253 THEN 1 ELSE IF chSize = 253 THEN 3 ELSE IF chSize = 254 THEN 5 ELSE 9

\* ReadCompactSize on the bytes of a stream that holds all bytes of the size,
\* for sizes below 2^31
ReadCompactSize(bytes) ==
    IF bytes[1] < 253 THEN bytes[1]
    ELSE IF bytes[1] = 253 THEN bytes[2] + 256 * bytes[3]
    ELSE bytes[2] + 256 * bytes[3] + Limb * (bytes[4] + 256 * bytes[5])

\* Whether a stream holds all bytes of the size it starts with
HoldsCompactSize(bytes) ==
    bytes # <<>> /\ Len(bytes) >= CompactSizeLength(bytes[1])

\* LimitedString::Serialize: the size and the characters
WriteLimitedString(string) == WriteCompactSize(Len(string)) \o string

\* CProtoconf() = default
CProtoconf_Default ==
    [maxRecvPayloadLength |-> NatU32(0), numberOfFields |-> 2, streamPolicies |-> <<>>]

\* CProtoconf(maxRecvPayloadLengthIn, streamPoliciesIn)
CProtoconf_New(maxRecvPayloadLengthIn, streamPoliciesIn) ==
    [maxRecvPayloadLength |-> maxRecvPayloadLengthIn,
     numberOfFields |-> 2,
     streamPolicies |-> streamPoliciesIn]

\* Reading with the tests of the field count and the limit of the string given
ProtoconfUnserializeWith(obj, bytes, HasLength(_), HasPolicies(_), limit) ==
    IF ~HoldsCompactSize(bytes)
    THEN [protoconfRead |-> obj, numBytesRead |-> 0, failure |-> TRUE]
    ELSE
    LET n0 == CompactSizeLength(bytes[1])
        o1 == [obj EXCEPT !.numberOfFields = ReadCompactSize(bytes)]
        rest1 == Drop(bytes, n0)
        o2 == [o1 EXCEPT !.maxRecvPayloadLength = ReadLE32(rest1)]
        rest2 == Drop(rest1, 4)
    IN  IF ~HasLength(o1.numberOfFields)
        THEN [protoconfRead |-> o1, numBytesRead |-> n0, failure |-> TRUE]
        ELSE IF Len(rest1) < 4
        THEN [protoconfRead |-> o1, numBytesRead |-> n0, failure |-> TRUE]
        ELSE IF ~HasPolicies(o1.numberOfFields)
        THEN [protoconfRead |-> o2, numBytesRead |-> n0 + 4, failure |-> FALSE]
        ELSE IF ~HoldsCompactSize(rest2)
        THEN [protoconfRead |-> o2, numBytesRead |-> n0 + 4, failure |-> TRUE]
        ELSE
        LET n2 == CompactSizeLength(rest2[1])
            size == ReadCompactSize(rest2)
        IN  IF size > limit \/ Len(rest2) < n2 + size
            THEN [protoconfRead |-> o2, numBytesRead |-> n0 + 4 + n2, failure |-> TRUE]
            ELSE [protoconfRead |-> [o2 EXCEPT !.streamPolicies = SubSeq(rest2, n2 + 1, n2 + size)],
                  numBytesRead |-> n0 + 4 + n2 + size,
                  failure |-> FALSE]

\* the stream policies are read whenever there is a field
UnserializeAlwaysPolicies(obj, bytes) ==
    ProtoconfUnserializeWith(obj, bytes, LAMBDA n : n > 0, LAMBDA n : n > 0, StreamPoliciesLimit)

\* the stream policies are read for exactly two fields
UnserializeExactlyTwo(obj, bytes) ==
    ProtoconfUnserializeWith(obj, bytes, LAMBDA n : n > 0, LAMBDA n : n = 2, StreamPoliciesLimit)

\* the limit of the string leaves out the separators
UnserializeShortLimit(obj, bytes) ==
    ProtoconfUnserializeWith(obj, bytes, LAMBDA n : n > 0, LAMBDA n : n > 1,
                             MAX_STREAM_POLICY_NAME_LENGTH * MAX_NUM_STREAM_POLICIES)

\* the members are set to their defaults before the reading starts
UnserializeFromDefault(obj, bytes) ==
    ProtoconfUnserializeWith(CProtoconf_Default, bytes, LAMBDA n : n > 0, LAMBDA n : n > 1,
                             StreamPoliciesLimit)

\* CProtoconf::SerializationOp, reading from the bytes of a stream.  The
\* result is the object as the reading left it, the number of bytes read and
\* whether std::ios_base::failure was thrown: by the stream when it ends
\* early, by LIMITED_STRING when the string is longer than its limit, or for
\* a number of fields of 0.
ProtoconfUnserialize(obj, bytes) ==
    IF ~HoldsCompactSize(bytes)
    THEN [protoconfRead |-> obj, numBytesRead |-> 0, failure |-> TRUE]
    ELSE
    LET n0 == CompactSizeLength(bytes[1])
        o1 == [obj EXCEPT !.numberOfFields = ReadCompactSize(bytes)]
        rest1 == Drop(bytes, n0)
        o2 == [o1 EXCEPT !.maxRecvPayloadLength = ReadLE32(rest1)]
        rest2 == Drop(rest1, 4)
    IN  IF o1.numberOfFields > 0
        THEN IF Len(rest1) < 4
             THEN [protoconfRead |-> o1, numBytesRead |-> n0, failure |-> TRUE]
             ELSE IF o1.numberOfFields > 1
             THEN IF ~HoldsCompactSize(rest2)
                  THEN [protoconfRead |-> o2, numBytesRead |-> n0 + 4, failure |-> TRUE]
                  ELSE
                  LET n2 == CompactSizeLength(rest2[1])
                      size == ReadCompactSize(rest2)
                  IN  IF size > StreamPoliciesLimit \/ Len(rest2) < n2 + size
                      THEN [protoconfRead |-> o2, numBytesRead |-> n0 + 4 + n2,
                            failure |-> TRUE]
                      ELSE [protoconfRead |->
                                [o2 EXCEPT !.streamPolicies = SubSeq(rest2, n2 + 1, n2 + size)],
                            numBytesRead |-> n0 + 4 + n2 + size,
                            failure |-> FALSE]
             ELSE [protoconfRead |-> o2, numBytesRead |-> n0 + 4, failure |-> FALSE]
        ELSE [protoconfRead |-> o1, numBytesRead |-> n0, failure |-> TRUE]

\* CProtoconf::SerializationOp, writing.  The result is the bytes written and
\* whether std::ios_base::failure was thrown.
ProtoconfSerialize(obj) ==
    IF obj.numberOfFields > 0
    THEN IF obj.numberOfFields > 1
         THEN [written |-> WriteCompactSize(obj.numberOfFields)
                            \o WriteLE32(obj.maxRecvPayloadLength)
                            \o WriteLimitedString(obj.streamPolicies),
               writeFailure |-> FALSE]
         ELSE [written |-> WriteCompactSize(obj.numberOfFields)
                            \o WriteLE32(obj.maxRecvPayloadLength),
               writeFailure |-> FALSE]
    ELSE [written |-> WriteCompactSize(obj.numberOfFields), writeFailure |-> TRUE]

-----------------------------------------------------------------------------
(* reverselock.h: reverse_lock over a Lock such as std::unique_lock *)

\* The threads that share the mutex
Threads == {1, 2, 3}

\* A Lock that refers to no mutex, as a default-constructed one
NoLock == <<"none", FALSE>>

\* A Lock owns the mutex it refers to
OwnsLock(l) == l[1] = "mutex" /\ l[2]

\* Lock::lock() can return for thread t: the Lock refers to the mutex, does
\* not own it, and the mutex is free (the call blocks while it is held)
CanLock(l) == l[1] = "mutex" /\ ~l[2] /\ mutex = 0

\* Lock::lock(): the Lock after the call
AfterLock(l) == <<l[1], TRUE>>

\* Lock::unlock(): the Lock after the call
AfterUnlock(l) == <<l[1], FALSE>>

-----------------------------------------------------------------------------
(* rpc/server.h: CRPCTable *)

\* A dispatch table without commands
NoCommands == [name \in {} |-> 0]

\* The table with name mapped to pcmd
WithCommand(table, name, pcmd) ==
    [n \in DOMAIN table \cup {name} |-> IF n = name THEN pcmd ELSE table[n]]

\* a command of the same name is replaced
appendCommandOverwrites(table, running, name, pcmd) ==
    IF running
    THEN <<table, FALSE>>
    ELSE <<WithCommand(table, name, pcmd), TRUE>>

\* CRPCTable::appendCommand(name, pcmd): <<mapCommands after the call, the
\* value returned>>.  false if the RPC server is already running; commands
\* cannot be overwritten (false)
appendCommand(table, running, name, pcmd) ==
    IF running
    THEN <<table, FALSE>>
    ELSE IF name \in DOMAIN table
    THEN <<table, FALSE>>
    ELSE <<WithCommand(table, name, pcmd), TRUE>>

-----------------------------------------------------------------------------
(* validationinterface.cpp: the slots of g_signals *)

\* RegisterValidationInterface: the signal and the bound method of each
\* connect, in the order of the calls
RegisterSlots ==
    << <<"UpdatedBlockTip", "UpdatedBlockTip">>,
       <<"TransactionAddedToMempool", "TransactionAddedToMempool">>,
       <<"TransactionRemovedFromMempool", "TransactionRemovedFromMempool">>,
       <<"TransactionRemovedFromMempoolBlock", "TransactionRemovedFromMempoolBlock">>,
       <<"TransactionAddedToMempool", "TransactionAdded">>,
       <<"BlockConnected", "BlockConnected">>,
       <<"BlockConnected2", "BlockConnected2">>,
       <<"BlockDisconnected", "BlockDisconnected">>,
       <<"SetBestChain", "SetBestChain">>,
       <<"Inventory", "Inventory">>,
       <<"Broadcast", "ResendWalletTransactions">>,
       <<"BlockChecked", "BlockChecked">>,
       <<"ScriptForMining", "GetScriptForMining">>,
       <<"NewPoWValidBlock", "NewPoWValidBlock">>,
       <<"InvalidTxMessageZMQ", "InvalidTxMessageZMQ">> >>

\* the second slot of TransactionAddedToMempool is not disconnected
UnregisterSlotsOnePerSignal ==
    << <<"ScriptForMining", "GetScriptForMining">>,
       <<"BlockChecked", "BlockChecked">>,
       <<"Broadcast", "ResendWalletTransactions">>,
       <<"Inventory", "Inventory">>,
       <<"SetBestChain", "SetBestChain">>,
       <<"TransactionAddedToMempool", "TransactionAddedToMempool">>,
       <<"TransactionRemovedFromMempool", "TransactionRemovedFromMempool">>,
       <<"TransactionRemovedFromMempoolBlock", "TransactionRemovedFromMempoolBlock">>,
       <<"BlockConnected", "BlockConnected">>,
       <<"BlockConnected2", "BlockConnected2">>,
       <<"BlockDisconnected", "BlockDisconnected">>,
       <<"UpdatedBlockTip", "UpdatedBlockTip">>,
       <<"NewPoWValidBlock", "NewPoWValidBlock">>,
       <<"InvalidTxMessageZMQ", "InvalidTxMessageZMQ">> >>

\* UnregisterValidationInterface: the signal and the bound method of each
\* disconnect, in the order of the calls
UnregisterSlots ==
    << <<"ScriptForMining", "GetScriptForMining">>,
       <<"BlockChecked", "BlockChecked">>,
       <<"Broadcast", "ResendWalletTransactions">>,
       <<"Inventory", "Inventory">>,
       <<"SetBestChain", "SetBestChain">>,
       <<"TransactionAddedToMempool", "TransactionAddedToMempool">>,
       <<"TransactionRemovedFromMempool", "TransactionRemovedFromMempool">>,
       <<"TransactionRemovedFromMempoolBlock", "TransactionRemovedFromMempoolBlock">>,
       <<"TransactionAddedToMempool", "TransactionAdded">>,
       <<"BlockConnected", "BlockConnected">>,
       <<"BlockConnected2", "BlockConnected2">>,
       <<"BlockDisconnected", "BlockDisconnected">>,
       <<"UpdatedBlockTip", "UpdatedBlockTip">>,
       <<"NewPoWValidBlock", "NewPoWValidBlock">>,
       <<"InvalidTxMessageZMQ", "InvalidTxMessageZMQ">> >>

\* UnregisterAllValidationInterfaces: the signal of each disconnect_all_slots,
\* in the order of the calls
UnregisterAllSignals ==
    <<"BlockChecked", "Broadcast", "Inventory", "SetBestChain", "TransactionAddedToMempool",
      "TransactionRemovedFromMempool", "TransactionRemovedFromMempoolBlock", "BlockConnected",
      "BlockConnected2", "ScriptForMining", "BlockDisconnected", "UpdatedBlockTip",
      "NewPoWValidBlock", "InvalidTxMessageZMQ">>

\* The signals of g_signals that the three functions name
Signals ==
    {RegisterSlots[k][1] : k \in 1..Len(RegisterSlots)}
        \cup {UnregisterSlots[k][1] : k \in 1..Len(UnregisterSlots)}
        \cup {UnregisterAllSignals[k] : k \in 1..Len(UnregisterAllSignals)}

\* signal.connect(boost::bind(method, pwalletIn, ...)) for each connect of
\* RegisterValidationInterface: every slot is appended to its signal
ConnectSlots(signals, pwalletIn) ==
    [signal \in Signals |->
        LET mine == SelectSeq(RegisterSlots, LAMBDA e : e[1] = signal)
        IN  signals[signal] \o [k \in 1..Len(mine) |-> <<mine[k][2], pwalletIn>>]]

\* signal.disconnect(boost::bind(method, pwalletIn, ...)) for each disconnect
\* of UnregisterValidationInterface: every slot of the signal that is equal
\* to the bound method of the interface is disconnected
DisconnectSlots(signals, pwalletIn) ==
    [signal \in Signals |->
        SelectSeq(signals[signal],
                  LAMBDA slot : ~(/\ slot[2] = pwalletIn
                                  /\ \E k \in 1..Len(UnregisterSlots) :
                                        UnregisterSlots[k] = <<signal, slot[1]>>))]

\* signal.disconnect_all_slots() for each signal UnregisterAllValidationInterfaces names
DisconnectAllSlots(signals) ==
    [signal \in Signals |->
        IF \E k \in 1..Len(UnregisterAllSignals) : UnregisterAllSignals[k] = signal
        THEN <<>>
        ELSE signals[signal]]

-----------------------------------------------------------------------------
(* net/net_message.h: CNetMessage *)

\* data_hash is left uninitialised
CNetMessage_NewStaleHash ==
    [hdr |-> CMessageHeader_New(NetMagic),
     dataBuff |-> <<>>,
     hasher |-> HashInit,
     data_hash |-> [i \in 1..32 |-> 204]]

\* CNetMessage(pchMessageStartIn, nTypeIn, nVersionIn), built with the
\* configured magic: default hasher, null data_hash, empty dataBuff
CNetMessage_New ==
    [hdr |-> CMessageHeader_New(NetMagic),
     dataBuff |-> <<>>,
     hasher |-> HashInit,
     data_hash |-> Zeros(32)]

\* the buffered length is not compared
CompleteIgnoresLength(h, buff) == HeaderComplete(h)

\* the buffered length is compared with the basic length field
CompleteBasicLengthOnly(h, buff) ==
    IF ~HeaderComplete(h)
    THEN FALSE
    ELSE U32ToU64(h.nPayloadLength) = NatU64(Len(buff))

\* the message counts as complete one byte before the last
CompleteOneByteShort(h, buff) ==
    IF ~HeaderComplete(h)
    THEN FALSE
    ELSE GetPayloadLength(h) \in {NatU64(Len(buff)), NatU64(Len(buff) + 1)}

\* a message is complete only with payload bytes in the buffer
CompleteNeedsPayload(h, buff) ==
    IF ~HeaderComplete(h) \/ buff = <<>>
    THEN FALSE
    ELSE GetPayloadLength(h) = NatU64(Len(buff))

\* CNetMessage::Complete()
CNetMessage_Complete(h, buff) ==
    IF ~HeaderComplete(h)
    THEN FALSE
    ELSE GetPayloadLength(h) = NatU64(Len(buff))

\* CNetMessage::GetMessageHash(): the value returned; the running hash is
\* finalised into data_hash on the first call and data_hash is returned after
GetMessageHash(m) ==
    IF IsNull(m.data_hash) THEN HashFinalize(m.hasher) ELSE m.data_hash

\* CNetMessage::GetTotalLength(): header size plus payload size
GetTotalLength(m) == U64Add(NatU64(GetLength(m.hdr)), GetPayloadLength(m.hdr))

\* every byte offered is copied
CopyCountAll(want, have, nBytes) == nBytes

\* std::min(hdr.GetPayloadLength() - dataBuff.size(), nBytes)
CopyCount(want, have, nBytes) ==
    LET fits == {k \in 0..nBytes : NatU64(have + k) = want}
    IN  IF fits = {} THEN nBytes ELSE CHOOSE k \in fits : TRUE

\* CNetMessage::Read(config, pch, nBytes).  While the header is incomplete the
\* bytes go to the header; once it is parsed the magic and the declared length
\* are checked and BanPeer is thrown for a wrong magic or an oversized message.
\* With a complete header the bytes still missing from the payload are
\* appended to dataBuff and to the running hash.  The result is the message,
\* the number of bytes consumed and the exception thrown, if any.
CNetMessage_Read(m, maxRecv, pch) ==
    IF ~HeaderComplete(m.hdr)
    THEN LET r == HeaderRead(m.hdr, m.dataBuff, pch)
         IN  [msg |-> [m EXCEPT !.hdr = r.hdr, !.dataBuff = r.buff],
              handled |-> r.numRead,
              thrown |->
                IF ~HeaderComplete(r.hdr) THEN "None"
                ELSE IF GetMsgStart(r.hdr) # NetMagic THEN "BadMagic"
                ELSE IF IsOversized(r.hdr, maxRecv) THEN "Oversized"
                ELSE "None"]
    ELSE LET nCopy == CopyCount(GetPayloadLength(m.hdr), Len(m.dataBuff), Len(pch))
         IN  [msg |-> [m EXCEPT !.dataBuff = m.dataBuff \o Take(pch, nCopy),
                                !.hasher = HashWrite(m.hasher, Take(pch, nCopy))],
              handled |-> nCopy,
              thrown |-> "None"]

\* hasher is one object shared by all CNetMessage objects (a static member)
CNetMessage_StaticHasher(all, c, m) ==
    [k \in DOMAIN all |-> IF k = c THEN m ELSE [all[k] EXCEPT !.hasher = m.hasher]]

\* hasher, data_hash, dataBuff and hdr are members of each CNetMessage
\* object: what a call on the object of connection c writes, among the
\* objects of all connections
CNetMessage_Members(all, c, m) == [all EXCEPT ![c] = m]

\* The message held by the state variables
Msg == [hdr |-> hdr, dataBuff |-> dataBuff, hasher |-> hasher, data_hash |-> data_hash]

\* Complete() of the message held by the state variables
Complete == CNetMessage_Complete(hdr, dataBuff)

-----------------------------------------------------------------------------
(* Inputs *)

\* Byte values of payloads
PayloadBytes == {1, 254}

RECURSIVE SeqsUpTo(_, _)
SeqsUpTo(S, n) ==
    IF n = 0 THEN {<<>>}
    ELSE LET shorter == SeqsUpTo(S, n - 1)
         IN  shorter \cup {Append(q, b) : q \in {x \in shorter : Len(x) = n - 1}, b \in S}

\* The byte strings that may follow a header on the wire
Follows == SeqsUpTo(PayloadBytes, MaxFollow)

\* Configured maximum receive payload lengths
ConfiguredMaxRecv ==
    {DEFAULT_MAX_PROTOCOL_RECV_PAYLOAD_LENGTH, MAX_PROTOCOL_RECV_PAYLOAD_LENGTH}

\* Commands of outgoing messages
SendCommands == {PING, BLOCK}

\* Payload sizes of outgoing messages too large to be held in the model: the
\* configured maximum, one more, and the sizes around the sentinel
LargeSizes(maxRecv) ==
    {NatU64(maxRecv), NatU64(maxRecv + 1),
     <<0, 0, Limb - 1, Limb - 2>>, <<0, 0, Limb - 1, Limb - 1>>, <<0, 1, 0, 0>>}

\* 12-byte command fields a peer may send: message types, a printable unknown
\* command and a field with a byte after the NUL
WireCommands ==
    {PadCommand(PING), PadCommand(BLOCK), PadCommand(UNKNOWN_CMD),
     PadCommand(<<112, 0, 105>>)}

\* The longest byte strings that may follow a header
LongFollows == {f \in Follows : Len(f) = MaxFollow}

\* Small values a peer may put in the basic length field
SmallWireLengths == {NatU32(n) : n \in 0..MaxFollow}

\* Large values a peer may put in the basic length field: the two ceilings,
\* one more than each, and the largest value that is not the sentinel
LargeWireLengths(maxRecv) ==
    {NatU32(maxRecv), NatU32(maxRecv + 1),
     NatU32(MAX_PROTOCOL_RECV_PAYLOAD_LENGTH), NatU32(MAX_PROTOCOL_RECV_PAYLOAD_LENGTH + 1),
     <<Limb - 1, Limb - 2>>}

\* Extended fields a peer may send after a basic header carrying the sentinel
WireExtended(maxRecv) ==
    {CExtendedMessageHeader_New(c, l) :
        c \in {PING, BLOCK},
        l \in {NatU64(1), NatU64(maxRecv + 1), <<0, 1, 0, 0>>}}

\* The checksum of the payload a header declares, given the bytes that follow it
ChecksumOf(declared, follow) ==
    LET n == CopyCount(declared, 0, Len(follow))
    IN  Take(Hash256(Take(follow, n)), CHECKSUM_SIZE)

\* A checksum that differs from c in its first byte
Corrupt(c) == [c EXCEPT ![1] = (c[1] + 1) % 256]

-----------------------------------------------------------------------------
\* The connections
Conns == {1, 2}

\* Numbers of bytes a connection's socket hands over at once
ReadSizes == {5, BASIC_HEADER_SIZE}

-----------------------------------------------------------------------------
\* The validation interfaces: the wallet, the ZMQ notifier and the peer logic
ValidationInterfaces == {"wallet", "zmq", "peerLogic"}

\* What an operation on the validation signals leaves alone
notSignalVars == <<framingVars, invVars, protoconfVars, connVars, lockVars, interruptVars, rpcVars>>

-----------------------------------------------------------------------------
(* Operations *)

Init ==
    /\ maxRecvPayloadLength \in ConfiguredMaxRecv
    /\ pc = "idle"
    /\ wire = <<>>
    /\ pos = 0
    /\ sentHdr = CMessageHeader_New(NetMagic)
    /\ sentMsg = <<>>
    /\ hdr = CNetMessage_New.hdr
    /\ dataBuff = CNetMessage_New.dataBuff
    /\ hasher = CNetMessage_New.hasher
    /\ data_hash = CNetMessage_New.data_hash
    /\ banPeer = FALSE
    /\ outcome = "None"
    /\ delivered = <<>>
    /\ offeredAll = TRUE
    /\ hashReturned = <<>>
    /\ vInv = <<>>
    /\ vInvSorted = <<>>
    /\ estimate = <<>>
    /\ invStream = <<>>
    /\ invDecoded = <<>>
    /\ protoconf = <<>>
    /\ vRecv = <<>>
    /\ nReadPos = 0
    /\ vSend = <<>>
    /\ protoconfState = "none"
    /\ connWire = [c \in Conns |-> <<>>]
    /\ connMsg = [c \in Conns |-> CNetMessage_New]
    /\ connPos = [c \in Conns |-> 0]
    /\ connThrown = [c \in Conns |-> "None"]
    /\ readLog = <<>>
    /\ mutex = 0
    /\ lock = [t \in Threads |-> NoLock]
    /\ templock = [t \in Threads |-> NoLock]
    /\ rlPc = [t \in Threads |-> "idle"]
    /\ flag = FALSE
    /\ mut = 0
    /\ cond = {}
    /\ tiPc = [t \in Threads |-> "new"]
    /\ sleepReturned = [t \in Threads |-> "none"]
    /\ callOverlapped = [t \in Threads |-> FALSE]
    /\ callReturned = FALSE
    /\ resetQuiet = FALSE
    /\ boolRead = <<>>
    /\ mapCommands = NoCommands
    /\ fRPCRunning = FALSE
    /\ appended = <<>>
    /\ g_signals = [signal \in Signals |-> <<>>]
    /\ lastCall = [pwalletIn \in ValidationInterfaces |-> <<"none", 0>>]

\* A peer serialises the header h and lets the bytes of follow come after it
PutOnWire(h, follow, msg) ==
    /\ pc = "idle"
    /\ pc' = "recv"
    /\ sentHdr' = h
    /\ wire' = Serialize(h) \o follow
    /\ sentMsg' = msg
    /\ UNCHANGED <<maxRecvPayloadLength, pos, hdr, dataBuff, hasher, data_hash,
                   banPeer, outcome, delivered, offeredAll, hashReturned>>
    /\ UNCHANGED <<invVars, protoconfVars, connVars, lockVars, interruptVars, rpcVars, signalVars>>

\* CMessageHeader(config, msg): the header of the outgoing message msg, built
\* from the configured magic and the command, size and hash of msg
CMessageHeader_ForMsg(msg) ==
    CMessageHeader_ForSend(NetMagic, msg.command, msg.size, msg.hash)

\* The send path: a peer running this implementation sends (command, data)
Send ==
    \E cmd \in SendCommands, data \in Follows :
        LET msg == [command |-> cmd, hash |-> Hash256(data),
                    size |-> NatU64(Len(data)), data |-> data]
        IN  PutOnWire(CMessageHeader_ForMsg(msg), data, <<msg>>)

\* A peer running this implementation starts sending a message too large for
\* the model to hold: the header and the first bytes of the payload arrive
SendLarge ==
    \E cmd \in SendCommands, size \in LargeSizes(maxRecvPayloadLength), data \in LongFollows :
        LET msg == [command |-> cmd, hash |-> Hash256(data), size |-> size, data |-> data]
        IN  PutOnWire(CMessageHeader_ForMsg(msg), data, <<msg>>)

\* The header a peer serialises from fields of its choice
WireHeader(magic, cmd, len, checksum, ext) ==
    [pchMessageStart |-> magic,
     pchCommand |-> cmd,
     nPayloadLength |-> len,
     pchChecksum |-> checksum,
     extendedFields |-> ext,
     complete |-> TRUE]

\* Any peer sends a basic header with the right magic and a small length,
\* with a right or a wrong checksum, and some bytes after it
Inject ==
    \E cmd \in WireCommands, len \in SmallWireLengths, bad \in BOOLEAN, follow \in Follows :
        LET good == ChecksumOf(U32ToU64(len), follow)
        IN  PutOnWire(WireHeader(NetMagic, cmd, len, IF bad THEN Corrupt(good) ELSE good, <<>>),
                      follow, <<>>)

\* Any peer sends a basic header with the right magic and a large length
InjectLarge ==
    \E cmd \in WireCommands \ {PadCommand(<<112, 0, 105>>)},
       len \in LargeWireLengths(maxRecvPayloadLength), follow \in LongFollows :
        PutOnWire(WireHeader(NetMagic, cmd, len, ChecksumOf(U32ToU64(len), follow), <<>>),
                  follow, <<>>)

\* Any peer sends a basic header with the magic of another network
InjectBadMagic ==
    \E cmd \in {PadCommand(PING), PadCommand(<<112, 0, 105>>)},
       len \in {NatU32(0), NatU32(1), NatU32(maxRecvPayloadLength + 1)}, follow \in Follows :
        PutOnWire(WireHeader(OtherMagic, cmd, len, ChecksumOf(U32ToU64(len), follow), <<>>),
                  follow, <<>>)

\* Any peer sends a basic header carrying the sentinel, with or without the
\* extended fields, and some bytes after it; the basic command is "extmsg" by
\* convention, and a peer may put another command there
InjectExtended ==
    \E magic \in {NetMagic, OtherMagic},
       basic \in {PadCommand(EXTMSG), PadCommand(BLOCK)},
       ext \in {<<>>} \cup {<<e>> : e \in WireExtended(maxRecvPayloadLength)},
       bad \in BOOLEAN, follow \in Follows :
        LET declared == IF ext = <<>> THEN NatU64(0) ELSE ext[1].nPayloadLength
            good == ChecksumOf(declared, follow)
        IN  /\ magic = OtherMagic => (~bad /\ follow \in LongFollows)
            /\ basic # PadCommand(EXTMSG) =>
                    (magic = NetMagic /\ ext # <<>> /\ ~bad /\ follow \in LongFollows)
            /\ PutOnWire(WireHeader(magic, basic, U32Max,
                                    IF bad THEN Corrupt(good) ELSE good, ext),
                         follow, <<>>)

\* Any peer sends a basic header with the right magic that declares all the
\* bytes after it and carries the checksum of all of them but the last
InjectPrefixChecksum ==
    \E cmd \in {PadCommand(PING), PadCommand(BLOCK)}, follow \in Follows \ {<<>>} :
        PutOnWire(WireHeader(NetMagic, cmd, NatU32(Len(follow)),
                             Take(Hash256(Take(follow, Len(follow) - 1)), CHECKSUM_SIZE), <<>>),
                  follow, <<>>)

\* The connection offers the next nBytes unconsumed bytes to CNetMessage::Read.
\* It does so only while the message is not complete and the peer not banned.
Read ==
    /\ pc = "recv"
    /\ ~banPeer
    /\ ~Complete
    /\ \E nBytes \in 1..(Len(wire) - pos) :
        LET r == CNetMessage_Read(Msg, maxRecvPayloadLength, SubSeq(wire, pos + 1, pos + nBytes))
        IN  /\ hdr' = r.msg.hdr
            /\ dataBuff' = r.msg.dataBuff
            /\ hasher' = r.msg.hasher
            /\ data_hash' = r.msg.data_hash
            /\ pos' = pos + r.handled
            /\ banPeer' = (r.thrown # "None")
            /\ outcome' = r.thrown
            /\ offeredAll' = (offeredAll /\ nBytes = Len(wire) - pos)
    /\ UNCHANGED <<maxRecvPayloadLength, pc, wire, sentHdr, sentMsg, delivered, hashReturned>>
    /\ UNCHANGED <<invVars, protoconfVars, connVars, lockVars, interruptVars, rpcVars, signalVars>>

\* The connection hands a complete message on: the hash is finalised and its
\* first bytes compared with the checksum of the header; a message with a
\* wrong checksum or an unknown command is dropped, any other is delivered.
Dispatch ==
    /\ pc = "recv"
    /\ ~banPeer
    /\ Complete
    /\ pc' = "done"
    /\ data_hash' = GetMessageHash(Msg)
    /\ hashReturned' = Append(hashReturned, GetMessageHash(Msg))
    /\ LET hash == GetMessageHash(Msg)
       IN  IF Take(hash, CHECKSUM_SIZE) # GetChecksum(hdr)
           THEN outcome' = "ChecksumMismatch" /\ delivered' = delivered
           ELSE IF GetCommand(hdr) \notin AllNetMessageTypes
           THEN outcome' = "UnknownCommand" /\ delivered' = delivered
           ELSE /\ outcome' = "Ok"
                /\ delivered' = Append(delivered,
                        [command |-> GetCommand(hdr), payload |-> dataBuff, messageHash |-> hash])
    /\ UNCHANGED <<maxRecvPayloadLength, wire, pos, sentHdr, sentMsg, hdr, dataBuff,
                   hasher, banPeer, offeredAll>>
    /\ UNCHANGED <<invVars, protoconfVars, connVars, lockVars, interruptVars, rpcVars, signalVars>>

\* The connection is reset while a message is in progress: its assembler is
\* discarded with whatever it holds, and nothing is done with it any more
Reset ==
    /\ pc = "recv"
    /\ ~Complete
    /\ pc' = "reset"
    /\ UNCHANGED <<maxRecvPayloadLength, wire, pos, sentHdr, sentMsg, hdr, dataBuff, hasher,
                   data_hash, banPeer, outcome, delivered, offeredAll, hashReturned>>
    /\ UNCHANGED <<invVars, protoconfVars, connVars, lockVars, interruptVars, rpcVars, signalVars>>

\* A consumer of the dispatched message asks for its hash once more
GetMessageHashAgain ==
    /\ pc = "done"
    /\ Len(hashReturned) < MaxHashCalls
    /\ data_hash' = GetMessageHash(Msg)
    /\ hashReturned' = Append(hashReturned, GetMessageHash(Msg))
    /\ UNCHANGED <<maxRecvPayloadLength, pc, wire, pos, sentHdr, sentMsg, hdr, dataBuff,
                   hasher, banPeer, outcome, delivered, offeredAll>>
    /\ UNCHANGED <<invVars, protoconfVars, connVars, lockVars, interruptVars, rpcVars, signalVars>>

Next ==
    \/ Send
    \/ SendLarge
    \/ Inject
    \/ InjectLarge
    \/ InjectBadMagic
    \/ InjectExtended
    \/ InjectPrefixChecksum
    \/ Read
    \/ Dispatch
    \/ Reset
    \/ GetMessageHashAgain

Spec == Init /\ [][Next]_vars

-----------------------------------------------------------------------------
(* Inventory items: inputs and operations *)

\* Inventory types that occur: the message types, an undefined one below and
\* one above them, message types with experimental high bits set, a type
\* that is a message type in its low 16 bits only, and all bits set
InvTypes ==
    {NatU32(UNDEFINED), NatU32(MSG_TX), NatU32(MSG_BLOCK), NatU32(MSG_FILTERED_BLOCK),
     NatU32(MSG_CMPCT_BLOCK), NatU32(5),
     <<8192, MSG_TX>>, <<57344, MSG_BLOCK>>, <<16384, MSG_FILTERED_BLOCK>>,
     <<32768, MSG_CMPCT_BLOCK>>, <<1, MSG_TX>>, U32Max}

\* Three hashes: the first differ in their last bytes only, the last is
\* greater in its first byte and smaller in its last
InvHashes ==
    {[i \in 1..32 |-> IF i = 32 THEN 255 ELSE 0],
     [i \in 1..32 |-> IF i = 31 THEN 1 ELSE 0],
     [i \in 1..32 |-> IF i = 1 THEN 1 ELSE 0]}

\* The inventory items that occur: every type with the middle hash, and
\* transactions and blocks with every hash
InvItems ==
    {CInv_New(t, [i \in 1..32 |-> IF i = 31 THEN 1 ELSE 0]) : t \in InvTypes}
    \cup {CInv_New(NatU32(k), h) : k \in {MSG_TX, MSG_BLOCK}, h \in InvHashes}

\* Payload lengths a peer can receive: the smallest ones, those around one
\* and two items, the default and the largest
InvPayloadLengths ==
    {NatU32(n) : n \in (0..9) \cup {43, 44, 45, 79, 80, 81}}
    \cup {NatU32(DEFAULT_MAX_PROTOCOL_RECV_PAYLOAD_LENGTH), <<Limb - 1, Limb - 2>>, U32Max}

\* A vector of three inventory items is filled, in any order
FillInv ==
    /\ vInv = <<>>
    /\ estimate = <<>>
    /\ invStream = <<>>
    /\ \E a \in InvItems, b \in InvItems, c \in InvItems : vInv' = <<a, b, c>>
    /\ UNCHANGED <<vInvSorted, estimate, invStream, invDecoded>>
    /\ UNCHANGED <<framingVars, protoconfVars, connVars, lockVars, interruptVars, rpcVars, signalVars>>

\* The vector is sorted
SortInv ==
    /\ vInv # <<>>
    /\ vInvSorted = <<>>
    /\ vInvSorted' = SortInvs(vInv)
    /\ UNCHANGED <<vInv, estimate, invStream, invDecoded>>
    /\ UNCHANGED <<framingVars, protoconfVars, connVars, lockVars, interruptVars, rpcVars, signalVars>>

\* The number of inventory items for a payload length is estimated
EstimateInv ==
    /\ vInv = <<>>
    /\ estimate = <<>>
    /\ invStream = <<>>
    /\ \E maxPayloadLength \in InvPayloadLengths :
        estimate' = <<maxPayloadLength, estimateMaxInvElements(maxPayloadLength)>>
    /\ UNCHANGED <<vInv, vInvSorted, invStream, invDecoded>>
    /\ UNCHANGED <<framingVars, protoconfVars, connVars, lockVars, interruptVars, rpcVars, signalVars>>

\* Types a peer puts on the wire: those above and kinds beyond the message
\* types with and without high bits
InvWireTypes == InvTypes \cup {<<8192, 5>>, <<0, 256>>, <<1, 0>>, <<57344, UNDEFINED>>}

\* Streams a CInv is read from: an item, an item with bytes after it, and an
\* item cut short
InvStreams ==
    LET whole == {InvSerialize(CInv_New(t, h)) : t \in InvWireTypes, h \in InvHashes}
    IN  whole \cup {w \o <<9>> : w \in whole} \cup {Take(w, InvWireSize - 1) : w \in whole}

\* A CInv is read from a stream
DecodeInv ==
    /\ vInv = <<>>
    /\ estimate = <<>>
    /\ invStream = <<>>
    /\ \E bytes \in InvStreams :
        /\ invStream' = bytes
        /\ invDecoded' = InvUnserialize(bytes)
    /\ UNCHANGED <<vInv, vInvSorted, estimate>>
    /\ UNCHANGED <<framingVars, protoconfVars, connVars, lockVars, interruptVars, rpcVars, signalVars>>

InitInv == Init /\ maxRecvPayloadLength = DEFAULT_MAX_PROTOCOL_RECV_PAYLOAD_LENGTH

NextInv ==
    \/ FillInv
    \/ SortInv
    \/ EstimateInv
    \/ DecodeInv

SpecInv == InitInv /\ [][NextInv]_vars

-----------------------------------------------------------------------------
(* The protoconf codec: inputs and operations *)

\* Stream policy strings: none, "Default", and strings of one character
\* around the limit
PolicyStrings ==
    {<<>>, <<68, 101, 102, 97, 117, 108, 116>>}
    \cup {[i \in 1..n |-> 97] :
            n \in {1, 252, 253, StreamPoliciesLimit - 1, StreamPoliciesLimit,
                   StreamPoliciesLimit + 1, 2 * StreamPoliciesLimit}}

\* Values of the max-receive-length field
ProtoconfLengths == {NatU32(DEFAULT_MAX_PROTOCOL_RECV_PAYLOAD_LENGTH), <<Limb - 1, Limb - 3>>}

\* Numbers of fields a peer may announce
ProtoconfFieldCounts == {0, 1, 2, 3, 4, 252, 253, 300}

\* Bytes a peer may send after the two fields
ProtoconfExtras == {<<>>, <<7>>, <<3, 1, 2, 3>>}

\* The streams a peer may send: a number of fields, the length field, the
\* stream policies and further bytes
ProtoconfWhole ==
    {WriteCompactSize(n) \o WriteLE32(m) \o WriteLimitedString(str) \o extra :
        n \in ProtoconfFieldCounts, m \in ProtoconfLengths,
        str \in PolicyStrings, extra \in ProtoconfExtras}

\* Streams that end early: in the number of fields, in the length field, in
\* the size and in the characters of the string
ProtoconfCut ==
    {<<>>, <<253, 44>>}
    \cup {WriteCompactSize(n) \o Take(WriteLE32(m), k) :
            n \in {1, 2, 300}, m \in ProtoconfLengths, k \in {0, 3, 4}}
    \cup {WriteCompactSize(n) \o WriteLE32(m) \o Take(WriteLimitedString(str), k) :
            n \in {2, 3}, m \in ProtoconfLengths,
            str \in {q \in PolicyStrings : Len(q) >= 7}, k \in {1, 2, 5}}

ProtoconfStreams == ProtoconfWhole \cup ProtoconfCut

\* CProtoconf protoconf;
ConstructDefault ==
    /\ protoconfState = "none"
    /\ protoconf' = <<CProtoconf_Default>>
    /\ protoconfState' = "constructed"
    /\ UNCHANGED <<vRecv, nReadPos, vSend>>
    /\ UNCHANGED <<framingVars, invVars, connVars, lockVars, interruptVars, rpcVars, signalVars>>

\* CProtoconf protoconf(maxRecvPayloadLengthIn, streamPoliciesIn);
ConstructWithArguments ==
    /\ protoconfState = "none"
    /\ \E maxRecvPayloadLengthIn \in ProtoconfLengths,
          streamPoliciesIn \in {q \in PolicyStrings : Len(q) <= StreamPoliciesLimit} :
        protoconf' = <<CProtoconf_New(maxRecvPayloadLengthIn, streamPoliciesIn)>>
    /\ protoconfState' = "constructed"
    /\ UNCHANGED <<vRecv, nReadPos, vSend>>
    /\ UNCHANGED <<framingVars, invVars, connVars, lockVars, interruptVars, rpcVars, signalVars>>

\* CProtoconf protoconf; vRecv >> protoconf;
DecodeProtoconf ==
    /\ protoconfState = "none"
    /\ \E bytes \in ProtoconfStreams :
        LET r == ProtoconfUnserialize(CProtoconf_Default, bytes)
        IN  /\ vRecv' = bytes
            /\ protoconf' = <<r.protoconfRead>>
            /\ nReadPos' = r.numBytesRead
            /\ protoconfState' = IF r.failure THEN "decodeFailed" ELSE "decoded"
    /\ UNCHANGED vSend
    /\ UNCHANGED <<framingVars, invVars, connVars, lockVars, interruptVars, rpcVars, signalVars>>

\* vRecv >> protoconf; for an object that was constructed before
DecodeIntoProtoconf ==
    /\ protoconfState = "constructed"
    /\ \E bytes \in ProtoconfStreams :
        LET r == ProtoconfUnserialize(protoconf[1], bytes)
        IN  /\ vRecv' = bytes
            /\ protoconf' = <<r.protoconfRead>>
            /\ nReadPos' = r.numBytesRead
            /\ protoconfState' = IF r.failure THEN "redecodeFailed" ELSE "redecoded"
    /\ UNCHANGED vSend
    /\ UNCHANGED <<framingVars, invVars, connVars, lockVars, interruptVars, rpcVars, signalVars>>

\* vSend << protoconf; for an object that was constructed or filled by a
\* decode that succeeded
EncodeProtoconf ==
    /\ protoconfState \in {"constructed", "decoded"}
    /\ LET r == ProtoconfSerialize(protoconf[1])
       IN  /\ vSend' = r.written
           /\ protoconfState' = IF r.writeFailure THEN "encodeFailed" ELSE "encoded"
    /\ UNCHANGED <<protoconf, vRecv, nReadPos>>
    /\ UNCHANGED <<framingVars, invVars, connVars, lockVars, interruptVars, rpcVars, signalVars>>

InitProtoconf == Init /\ maxRecvPayloadLength = DEFAULT_MAX_PROTOCOL_RECV_PAYLOAD_LENGTH

NextProtoconf ==
    \/ ConstructDefault
    \/ ConstructWithArguments
    \/ DecodeProtoconf
    \/ DecodeIntoProtoconf
    \/ EncodeProtoconf

SpecProtoconf == InitProtoconf /\ [][NextProtoconf]_vars

-----------------------------------------------------------------------------
(* Two connections: inputs and operations *)

\* What a peer sends on a connection: a ping with a payload, a block in an
\* extended header with the first bytes of its payload, and a ping with the
\* magic of another network
ConnWires ==
    {Serialize(CMessageHeader_ForSend(NetMagic, PING, NatU64(2), Hash256(<<1, 254>>))) \o <<1, 254>>,
     Serialize(WireHeader(NetMagic, PadCommand(EXTMSG), U32Max, Take(Hash256(<<254>>), CHECKSUM_SIZE),
                          <<CExtendedMessageHeader_New(BLOCK, NatU64(1))>>)) \o <<254>>,
     Serialize(WireHeader(OtherMagic, PadCommand(PING), NatU32(1), Take(Hash256(<<1>>), CHECKSUM_SIZE),
                          <<>>)) \o <<1>>}

\* The peer of connection c sends
Arrive(c) ==
    /\ connWire[c] = <<>>
    /\ \E bytes \in ConnWires : connWire' = [connWire EXCEPT ![c] = bytes]
    /\ UNCHANGED <<connMsg, connPos, connThrown, readLog>>
    /\ UNCHANGED <<framingVars, invVars, protoconfVars, lockVars, interruptVars, rpcVars, signalVars>>

\* The number of Read calls connection c made
ReadsOf(c) == Cardinality({i \in 1..Len(readLog) : readLog[i][1] = c})

\* The receive path of connection c offers the next nBytes unconsumed bytes
\* to the Read of its own assembler
ReadOn(c) ==
    /\ connWire[c] # <<>>
    /\ connThrown[c] = "None"
    /\ ~CNetMessage_Complete(connMsg[c].hdr, connMsg[c].dataBuff)
    /\ ReadsOf(c) < MaxReads
    /\ \E nBytes \in {n \in ReadSizes \cup {Len(connWire[c]) - connPos[c]} :
                        n >= 1 /\ n <= Len(connWire[c]) - connPos[c]} :
        LET r == CNetMessage_Read(connMsg[c], maxRecvPayloadLength,
                                  SubSeq(connWire[c], connPos[c] + 1, connPos[c] + nBytes))
        IN  /\ connMsg' = CNetMessage_Members(connMsg, c, r.msg)
            /\ connPos' = [connPos EXCEPT ![c] = connPos[c] + r.handled]
            /\ connThrown' = [connThrown EXCEPT ![c] = r.thrown]
            /\ readLog' = Append(readLog, <<c, nBytes>>)
    /\ UNCHANGED connWire
    /\ UNCHANGED <<framingVars, invVars, protoconfVars, lockVars, interruptVars, rpcVars, signalVars>>

InitConnections == Init /\ maxRecvPayloadLength = DEFAULT_MAX_PROTOCOL_RECV_PAYLOAD_LENGTH

NextConnections ==
    \/ \E c \in Conns : Arrive(c)
    \/ \E c \in Conns : ReadOn(c)

SpecConnections == InitConnections /\ [][NextConnections]_vars

-----------------------------------------------------------------------------
(* reverse_lock: operations of the threads *)

\* Thread t constructs its Lock on the mutex, which locks it
AcquireLock(t) ==
    /\ rlPc[t] = "idle"
    /\ CanLock(<<"mutex", FALSE>>)
    /\ mutex' = t
    /\ lock' = [lock EXCEPT ![t] = AfterLock(<<"mutex", FALSE>>)]
    /\ rlPc' = [rlPc EXCEPT ![t] = "locked"]
    /\ UNCHANGED templock
    /\ UNCHANGED <<framingVars, invVars, protoconfVars, connVars, interruptVars, rpcVars, signalVars>>

\* reverse_lock::reverse_lock, _lock.unlock(): the mutex is released
reverse_lock_ctor_unlock(t) ==
    /\ rlPc[t] \in {"locked", "restored"}
    /\ OwnsLock(lock[t])
    /\ mutex' = 0
    /\ lock' = [lock EXCEPT ![t] = AfterUnlock(lock[t])]
    /\ rlPc' = [rlPc EXCEPT ![t] = "ctor"]
    /\ UNCHANGED templock
    /\ UNCHANGED <<framingVars, invVars, protoconfVars, connVars, interruptVars, rpcVars, signalVars>>

\* reverse_lock::reverse_lock, _lock.swap(templock): the reverse_lock exists
reverse_lock_ctor_swap(t) ==
    /\ rlPc[t] = "ctor"
    /\ lock' = [lock EXCEPT ![t] = templock[t]]
    /\ templock' = [templock EXCEPT ![t] = lock[t]]
    /\ rlPc' = [rlPc EXCEPT ![t] = "reversed"]
    /\ UNCHANGED mutex
    /\ UNCHANGED <<framingVars, invVars, protoconfVars, connVars, interruptVars, rpcVars, signalVars>>

\* the destructor does not wait for the mutex
reverse_lock_dtor_adopts(t) ==
    /\ rlPc[t] = "reversed"
    /\ templock' = [templock EXCEPT ![t] = AfterLock(templock[t])]
    /\ rlPc' = [rlPc EXCEPT ![t] = "dtor"]
    /\ UNCHANGED <<mutex, lock>>
    /\ UNCHANGED <<framingVars, invVars, protoconfVars, connVars, interruptVars, rpcVars, signalVars>>

\* reverse_lock::~reverse_lock, templock.lock(): blocks until the mutex is free
reverse_lock_dtor_lock(t) ==
    /\ rlPc[t] = "reversed"
    /\ CanLock(templock[t])
    /\ mutex' = t
    /\ templock' = [templock EXCEPT ![t] = AfterLock(templock[t])]
    /\ rlPc' = [rlPc EXCEPT ![t] = "dtor"]
    /\ UNCHANGED lock
    /\ UNCHANGED <<framingVars, invVars, protoconfVars, connVars, interruptVars, rpcVars, signalVars>>

\* reverse_lock::~reverse_lock, templock.swap(lock): the destructor returns
reverse_lock_dtor_swap(t) ==
    /\ rlPc[t] = "dtor"
    /\ lock' = [lock EXCEPT ![t] = templock[t]]
    /\ templock' = [templock EXCEPT ![t] = lock[t]]
    /\ rlPc' = [rlPc EXCEPT ![t] = "restored"]
    /\ UNCHANGED mutex
    /\ UNCHANGED <<framingVars, invVars, protoconfVars, connVars, interruptVars, rpcVars, signalVars>>

\* Thread t destroys its Lock, which unlocks the mutex
ReleaseLock(t) ==
    /\ rlPc[t] \in {"locked", "restored"}
    /\ OwnsLock(lock[t])
    /\ mutex' = 0
    /\ lock' = [lock EXCEPT ![t] = NoLock]
    /\ rlPc' = [rlPc EXCEPT ![t] = "idle"]
    /\ UNCHANGED templock
    /\ UNCHANGED <<framingVars, invVars, protoconfVars, connVars, interruptVars, rpcVars, signalVars>>

InitReverseLock == Init /\ maxRecvPayloadLength = DEFAULT_MAX_PROTOCOL_RECV_PAYLOAD_LENGTH

NextReverseLock ==
    \/ \E t \in Threads : AcquireLock(t)
    \/ \E t \in Threads : reverse_lock_ctor_unlock(t)
    \/ \E t \in Threads : reverse_lock_ctor_swap(t)
    \/ \E t \in Threads : reverse_lock_dtor_lock(t)
    \/ \E t \in Threads : reverse_lock_dtor_swap(t)
    \/ \E t \in Threads : ReleaseLock(t)

SpecReverseLock == InitReverseLock /\ [][NextReverseLock]_vars

-----------------------------------------------------------------------------
(* threadinterrupt.h: CThreadInterrupt and the threads that use it *)

\* The threads that sleep on the CThreadInterrupt
Sleepers == {1, 2}

\* The threads that interrupt
Interrupters == {3}

\* The variables of the other components
notInterruptVars == <<framingVars, invVars, protoconfVars, connVars, lockVars, rpcVars, signalVars>>

\* The implicit constructor: flag has no initialiser and holds either value
CThreadInterrupt_New ==
    /\ \A t \in Threads : tiPc[t] = "new"
    /\ flag' \in BOOLEAN
    /\ tiPc' = [t \in Threads |-> "idle"]
    /\ UNCHANGED <<mut, cond, sleepReturned, callOverlapped, callReturned, resetQuiet, boolRead>>
    /\ UNCHANGED notInterruptVars

\* operator bool(): flag is loaded
CThreadInterrupt_bool ==
    /\ \E t \in Threads : tiPc[t] # "new"
    /\ boolRead' = <<callReturned, resetQuiet, flag>>
    /\ UNCHANGED <<flag, mut, cond, tiPc, sleepReturned, callOverlapped, callReturned, resetQuiet>>
    /\ UNCHANGED notInterruptVars

\* reset() leaves flag as it is
CThreadInterrupt_reset_nothing ==
    /\ \E t \in Threads : tiPc[t] # "new"
    /\ callOverlapped' = [t \in Threads |-> t \in Interrupters /\ tiPc[t] # "idle"]
    /\ callReturned' = FALSE
    /\ resetQuiet' = (\A t \in Interrupters : tiPc[t] = "idle")
    /\ UNCHANGED <<flag, mut, cond, tiPc, sleepReturned, boolRead>>
    /\ UNCHANGED notInterruptVars

\* reset(): false is stored to flag
CThreadInterrupt_reset ==
    /\ \E t \in Threads : tiPc[t] # "new"
    /\ flag' = FALSE
    /\ callOverlapped' = [t \in Threads |-> t \in Interrupters /\ tiPc[t] # "idle"]
    /\ callReturned' = FALSE
    /\ resetQuiet' = (\A t \in Interrupters : tiPc[t] = "idle")
    /\ UNCHANGED <<mut, cond, tiPc, sleepReturned, boolRead>>
    /\ UNCHANGED notInterruptVars

\* Thread t calls operator()()
CThreadInterrupt_call(t) ==
    /\ tiPc[t] = "idle"
    /\ tiPc' = [tiPc EXCEPT ![t] = "enter"]
    /\ resetQuiet' = FALSE
    /\ UNCHANGED <<flag, mut, cond, sleepReturned, callReturned, boolRead>>
    /\ callOverlapped' = [callOverlapped EXCEPT ![t] = FALSE]
    /\ UNCHANGED notInterruptVars

\* operator()(): mut is locked
CThreadInterrupt_call_lock(t) ==
    /\ tiPc[t] = "enter"
    /\ mut = 0
    /\ mut' = t
    /\ tiPc' = [tiPc EXCEPT ![t] = "locked"]
    /\ UNCHANGED <<flag, cond, sleepReturned, callOverlapped, callReturned, resetQuiet, boolRead>>
    /\ UNCHANGED notInterruptVars

\* operator()(): true is stored to flag
CThreadInterrupt_call_store(t) ==
    /\ tiPc[t] = "locked"
    /\ flag' = TRUE
    /\ tiPc' = [tiPc EXCEPT ![t] = "stored"]
    /\ UNCHANGED <<mut, cond, sleepReturned, callOverlapped, callReturned, resetQuiet, boolRead>>
    /\ UNCHANGED notInterruptVars

\* operator()(): mut is unlocked at the end of the block
CThreadInterrupt_call_unlock(t) ==
    /\ tiPc[t] = "stored"
    /\ mut' = 0
    /\ tiPc' = [tiPc EXCEPT ![t] = "notify"]
    /\ UNCHANGED <<flag, cond, sleepReturned, callOverlapped, callReturned, resetQuiet, boolRead>>
    /\ UNCHANGED notInterruptVars

\* operator()() returns without notifying
CThreadInterrupt_call_return(t) ==
    /\ tiPc[t] = "notify"
    /\ tiPc' = [tiPc EXCEPT ![t] = "idle"]
    /\ callReturned' = (callReturned \/ ~callOverlapped[t])
    /\ UNCHANGED <<flag, mut, cond, sleepReturned, callOverlapped, resetQuiet, boolRead>>
    /\ UNCHANGED notInterruptVars

\* operator()(): cond.notify_all() wakes every thread blocked on cond, and
\* the call returns
CThreadInterrupt_call_notify(t) ==
    /\ tiPc[t] = "notify"
    /\ cond' = {}
    /\ tiPc' = [u \in Threads |-> IF u = t THEN "idle" ELSE IF u \in cond THEN "woken" ELSE tiPc[u]]
    /\ callReturned' = (callReturned \/ ~callOverlapped[t])
    /\ UNCHANGED <<flag, mut, sleepReturned, callOverlapped, resetQuiet, boolRead>>
    /\ UNCHANGED notInterruptVars

\* Thread t calls sleep_for
sleep_for_call(t) ==
    /\ tiPc[t] \in {"idle", "returned"}
    /\ tiPc' = [tiPc EXCEPT ![t] = "enter"]
    /\ sleepReturned' = [sleepReturned EXCEPT ![t] = "none"]
    /\ UNCHANGED <<flag, mut, cond, callOverlapped, callReturned, resetQuiet, boolRead>>
    /\ UNCHANGED notInterruptVars

\* sleep_for: mut is locked, on entry and after a wake-up
sleep_for_lock(t) ==
    /\ tiPc[t] \in {"enter", "woken"}
    /\ mut = 0
    /\ mut' = t
    /\ tiPc' = [tiPc EXCEPT ![t] = "pred"]
    /\ UNCHANGED <<flag, cond, sleepReturned, callOverlapped, callReturned, resetQuiet, boolRead>>
    /\ UNCHANGED notInterruptVars

\* sleep_for: the predicate of the wait loads flag; with flag set the wait
\* ends, mut is unlocked and sleep_for returns false (interrupted)
sleep_for_pred(t) ==
    /\ tiPc[t] = "pred"
    /\ IF flag
       THEN /\ mut' = 0
            /\ tiPc' = [tiPc EXCEPT ![t] = "returned"]
            /\ sleepReturned' = [sleepReturned EXCEPT ![t] = "interrupted"]
       ELSE /\ tiPc' = [tiPc EXCEPT ![t] = "wait"]
            /\ UNCHANGED <<mut, sleepReturned>>
    /\ UNCHANGED <<flag, cond, callOverlapped, callReturned, resetQuiet, boolRead>>
    /\ UNCHANGED notInterruptVars

\* sleep_for: the wait unlocks mut and blocks on cond in one step
sleep_for_wait(t) ==
    /\ tiPc[t] = "wait"
    /\ mut' = 0
    /\ cond' = cond \cup {t}
    /\ tiPc' = [tiPc EXCEPT ![t] = "blocked"]
    /\ UNCHANGED <<flag, sleepReturned, callOverlapped, callReturned, resetQuiet, boolRead>>
    /\ UNCHANGED notInterruptVars

\* sleep_for: a blocked thread wakes up though nobody notified it
sleep_for_spurious(t) ==
    /\ tiPc[t] = "blocked"
    /\ cond' = cond \ {t}
    /\ tiPc' = [tiPc EXCEPT ![t] = "woken"]
    /\ UNCHANGED <<flag, mut, sleepReturned, callOverlapped, callReturned, resetQuiet, boolRead>>
    /\ UNCHANGED notInterruptVars

\* sleep_for: rel_time has passed for a blocked thread
sleep_for_timeout(t) ==
    /\ tiPc[t] = "blocked"
    /\ cond' = cond \ {t}
    /\ tiPc' = [tiPc EXCEPT ![t] = "expired"]
    /\ UNCHANGED <<flag, mut, sleepReturned, callOverlapped, callReturned, resetQuiet, boolRead>>
    /\ UNCHANGED notInterruptVars

\* sleep_for: after the time-out mut is locked again
sleep_for_expired_lock(t) ==
    /\ tiPc[t] = "expired"
    /\ mut = 0
    /\ mut' = t
    /\ tiPc' = [tiPc EXCEPT ![t] = "last"]
    /\ UNCHANGED <<flag, cond, sleepReturned, callOverlapped, callReturned, resetQuiet, boolRead>>
    /\ UNCHANGED notInterruptVars

\* sleep_for: after the time-out the predicate decides the result, mut is
\* unlocked and sleep_for returns
sleep_for_expired_return(t) ==
    /\ tiPc[t] = "last"
    /\ mut' = 0
    /\ tiPc' = [tiPc EXCEPT ![t] = "returned"]
    /\ sleepReturned' = [sleepReturned EXCEPT ![t] = IF flag THEN "interrupted" ELSE "timeout"]
    /\ UNCHANGED <<flag, cond, callOverlapped, callReturned, resetQuiet, boolRead>>
    /\ UNCHANGED notInterruptVars

\* Thread t is inside sleep_for
InSleep(t) == t \in Sleepers /\ tiPc[t] \in {"enter", "pred", "wait", "blocked", "woken", "expired", "last"}

\* reset() as its callers use it: while no thread is inside sleep_for
ResetWhileNoneSleeps ==
    /\ \A t \in Sleepers : ~InSleep(t)
    /\ CThreadInterrupt_reset

InitInterrupt == Init /\ maxRecvPayloadLength = DEFAULT_MAX_PROTOCOL_RECV_PAYLOAD_LENGTH

\* The steps of the calls on the CThreadInterrupt other than reset()
InterruptSteps ==
    \/ CThreadInterrupt_New
    \/ CThreadInterrupt_bool
    \/ \E t \in Interrupters : CThreadInterrupt_call(t)
    \/ \E t \in Interrupters : CThreadInterrupt_call_lock(t)
    \/ \E t \in Interrupters : CThreadInterrupt_call_store(t)
    \/ \E t \in Interrupters : CThreadInterrupt_call_unlock(t)
    \/ \E t \in Interrupters : CThreadInterrupt_call_notify(t)
    \/ \E t \in Sleepers : sleep_for_call(t)
    \/ \E t \in Sleepers : sleep_for_lock(t)
    \/ \E t \in Sleepers : sleep_for_pred(t)
    \/ \E t \in Sleepers : sleep_for_wait(t)
    \/ \E t \in Sleepers : sleep_for_spurious(t)
    \/ \E t \in Sleepers : sleep_for_timeout(t)
    \/ \E t \in Sleepers : sleep_for_expired_lock(t)
    \/ \E t \in Sleepers : sleep_for_expired_return(t)

NextInterrupt ==
    \/ InterruptSteps
    \/ CThreadInterrupt_reset

SpecInterrupt == InitInterrupt /\ [][NextInterrupt]_vars

NextSleep ==
    \/ InterruptSteps
    \/ ResetWhileNoneSleeps

\* A call that has begun goes on: every step of a call is taken when it stays
\* possible, and a thread waiting for mut gets it when it is free again and
\* again.  Nothing makes a thread begin a call, and nothing makes the time
\* of a sleep pass or a spurious wake-up happen.
FairSleep ==
    /\ WF_vars(CThreadInterrupt_New)
    /\ \A t \in Interrupters :
        /\ SF_vars(CThreadInterrupt_call_lock(t))
        /\ WF_vars(CThreadInterrupt_call_store(t))
        /\ WF_vars(CThreadInterrupt_call_unlock(t))
        /\ WF_vars(CThreadInterrupt_call_notify(t))
    /\ \A t \in Sleepers :
        /\ SF_vars(sleep_for_lock(t))
        /\ WF_vars(sleep_for_pred(t))
        /\ WF_vars(sleep_for_wait(t))
        /\ SF_vars(sleep_for_expired_lock(t))
        /\ WF_vars(sleep_for_expired_return(t))

SpecSleep == InitInterrupt /\ [][NextSleep]_vars /\ FairSleep

-----------------------------------------------------------------------------
(* The RPC dispatch table: inputs and operations *)

\* Names of RPC commands
RpcNames == {"help", "stop", "getinfo"}

\* The CRPCCommand objects there are
RpcCommands == {1, 2}

\* The variables of the other components
notRpcVars == <<framingVars, invVars, protoconfVars, connVars, lockVars, interruptVars, signalVars>>

\* StartRPC()
StartRPC ==
    /\ ~fRPCRunning
    /\ fRPCRunning' = TRUE
    /\ UNCHANGED <<mapCommands, appended>>
    /\ UNCHANGED notRpcVars

\* StopRPC()
StopRPC ==
    /\ fRPCRunning
    /\ fRPCRunning' = FALSE
    /\ UNCHANGED <<mapCommands, appended>>
    /\ UNCHANGED notRpcVars

\* tableRPC.appendCommand(name, pcmd) is called
AppendCommand ==
    /\ \E name \in RpcNames, pcmd \in RpcCommands :
        LET r == appendCommand(mapCommands, fRPCRunning, name, pcmd)
        IN  /\ mapCommands' = r[1]
            /\ appended' = <<name, pcmd, mapCommands, fRPCRunning, r[2]>>
    /\ UNCHANGED fRPCRunning
    /\ UNCHANGED notRpcVars

InitRPC == Init /\ maxRecvPayloadLength = DEFAULT_MAX_PROTOCOL_RECV_PAYLOAD_LENGTH

NextRPC ==
    \/ StartRPC
    \/ StopRPC
    \/ AppendCommand

SpecRPC == InitRPC /\ [][NextRPC]_vars

-----------------------------------------------------------------------------
(* The validation signals: inputs and operations *)

\* The number of registrations of an interface in force: its slots for
\* UpdatedBlockTip
Registrations(pwalletIn) ==
    Len(SelectSeq(g_signals["UpdatedBlockTip"], LAMBDA slot : slot[2] = pwalletIn))

\* RegisterValidationInterface(pwalletIn)
RegisterValidationInterface(pwalletIn) ==
    /\ Registrations(pwalletIn) < MaxRegistrations
    /\ g_signals' = ConnectSlots(g_signals, pwalletIn)
    /\ lastCall' = [lastCall EXCEPT ![pwalletIn] = <<"register", Registrations(pwalletIn)>>]
    /\ UNCHANGED notSignalVars

\* UnregisterValidationInterface(pwalletIn)
UnregisterValidationInterface(pwalletIn) ==
    /\ g_signals' = DisconnectSlots(g_signals, pwalletIn)
    /\ lastCall' = [lastCall EXCEPT ![pwalletIn] = <<"unregister", Registrations(pwalletIn)>>]
    /\ UNCHANGED notSignalVars

\* UnregisterAllValidationInterfaces()
UnregisterAllValidationInterfaces ==
    /\ g_signals' = DisconnectAllSlots(g_signals)
    /\ lastCall' = [pwalletIn \in ValidationInterfaces |->
                        <<"unregisterAll", Registrations(pwalletIn)>>]
    /\ UNCHANGED notSignalVars

InitSignals == Init /\ maxRecvPayloadLength = DEFAULT_MAX_PROTOCOL_RECV_PAYLOAD_LENGTH

NextSignals ==
    \/ \E pwalletIn \in ValidationInterfaces : RegisterValidationInterface(pwalletIn)
    \/ \E pwalletIn \in ValidationInterfaces : UnregisterValidationInterface(pwalletIn)
    \/ UnregisterAllValidationInterfaces

SpecSignals == InitSignals /\ [][NextSignals]_vars

-----------------------------------------------------------------------------
(* What was put on the wire, for comparison with what the assembler made of it *)

\* The number of header bytes on the wire
SentHeaderSize == Len(Serialize(sentHdr))

\* The bytes after the header on the wire
SentFollow == Drop(wire, SentHeaderSize)

\* The wire holds exactly one message encoded by the send path: the header
\* and all the bytes of the payload
WellFormedWire ==
    /\ pc # "idle"
    /\ sentMsg # <<>>
    /\ sentMsg[1].size = NatU64(Len(sentMsg[1].data))

\* The header on the wire declares more than the maximum for its command
SentOversized ==
    U64Less(GetMaxMessageLength(GetCommand(sentHdr), maxRecvPayloadLength),
            GetPayloadLength(sentHdr))

RECURSIVE FeedAllFrom(_, _, _)
\* The message after all of bytes was offered to Read at once and what Read
\* left unconsumed was offered again, until the message is complete, an
\* exception is thrown or nothing is left
FeedAllFrom(m, bytes, maxRecv) ==
    IF bytes = <<>> \/ CNetMessage_Complete(m.hdr, m.dataBuff)
    THEN m
    ELSE LET r == CNetMessage_Read(m, maxRecv, bytes)
         IN  IF r.thrown # "None" \/ r.handled = 0
             THEN r.msg
             ELSE FeedAllFrom(r.msg, Drop(bytes, r.handled), maxRecv)

FeedAll == FeedAllFrom(CNetMessage_New, wire, maxRecvPayloadLength)

-----------------------------------------------------------------------------
(* Claims *)

C3_OversizedRejected ==
    (pc # "idle" /\ HeaderComplete(hdr) /\ sentHdr.pchMessageStart = NetMagic) =>
        /\ SentOversized =>
            /\ banPeer
            /\ outcome = "Oversized"
            /\ dataBuff = <<>>
            /\ pos = GetLength(hdr)
        /\ ~SentOversized => (~banPeer /\ outcome # "Oversized")

\* A header declaring one byte more than the configured maximum was rejected
\* with bytes following it on the wire.
C3_Witness ==
    /\ HeaderComplete(hdr)
    /\ GetPayloadLength(sentHdr) = NatU64(maxRecvPayloadLength + 1)
    /\ ~IsBlockLike(GetCommand(sentHdr))
    /\ outcome = "Oversized"
    /\ banPeer
    /\ Len(wire) > pos

\* C4: Complete() is true exactly when the header is complete and as many
\* payload bytes are buffered as the header declares; the declared length is
\* the one on the wire and the buffered bytes are the bytes consumed after the
\* header.
C4_CompleteIff ==
    /\ Complete <=> (HeaderComplete(hdr) /\ GetPayloadLength(hdr) = NatU64(Len(dataBuff)))
    /\ (pc # "idle" /\ HeaderComplete(hdr)) =>
        /\ GetPayloadLength(hdr) = GetPayloadLength(sentHdr)
        /\ Len(dataBuff) = pos - SentHeaderSize
    /\ ~HeaderComplete(hdr) => ~Complete

\* A message with an extended header is complete with a payload byte buffered.
C4_Witness ==
    /\ Complete
    /\ IsExtended(hdr)
    /\ Len(dataBuff) = 1

\* C5: a message of a registered command with a payload shorter than
\* 0xFFFFFFFF, encoded by the send path, is decoded to a complete basic header
\* with the magic, command, declared length and checksum it was encoded with,
\* and the payload bytes buffered after it are the payload bytes encoded.
C5_BasicRoundTrip ==
    (pc # "idle" /\ sentMsg # <<>> /\ U64Less(sentMsg[1].size, U32ToU64(U32Max))) =>
        /\ sentMsg[1].command \in AllNetMessageTypes
        /\ pos >= BASIC_HEADER_SIZE => HeaderComplete(hdr)
        /\ HeaderComplete(hdr) =>
            /\ ~IsExtended(hdr)
            /\ GetMsgStart(hdr) = NetMagic
            /\ GetCommand(hdr) = sentMsg[1].command
            /\ GetPayloadLength(hdr) = sentMsg[1].size
            /\ GetChecksum(hdr) = Take(sentMsg[1].hash, CHECKSUM_SIZE)
            /\ hdr = sentHdr
            /\ dataBuff = Take(sentMsg[1].data, Len(dataBuff))
        /\ (WellFormedWire /\ Complete) => dataBuff = sentMsg[1].data
        /\ (WellFormedWire /\ pc = "done") =>
            delivered = <<[command |-> sentMsg[1].command,
                           payload |-> sentMsg[1].data,
                           messageHash |-> sentMsg[1].hash]>>

\* A block message with the longest payload was encoded, decoded and handed on.
C5_Witness ==
    /\ WellFormedWire
    /\ pc = "done"
    /\ sentMsg[1].command = BLOCK
    /\ Len(sentMsg[1].data) = MaxFollow
    /\ dataBuff = sentMsg[1].data
    /\ Len(delivered) = 1

\* C6: for a payload length of 0xFFFFFFFF or more the send path builds an
\* extended header (sentinel in the basic length field, 44 bytes on the wire)
\* and the decoded header reports the original length, held in its extended
\* length field while its basic length field holds the sentinel; for a shorter
\* payload the send path builds a basic header of 24 bytes.
C6_ExtendedFraming ==
    (pc # "idle" /\ sentMsg # <<>>) =>
        IF ~U64Less(sentMsg[1].size, U32ToU64(U32Max))
        THEN /\ sentHdr.nPayloadLength = U32Max
             /\ IsExtended(sentHdr)
             /\ SentHeaderSize = EXTENDED_HEADER_SIZE
             /\ SentHeaderSize = 44
             /\ GetHeaderSizeForPayload(sentMsg[1].size) = SentHeaderSize
             /\ pos >= EXTENDED_HEADER_SIZE => HeaderComplete(hdr)
             /\ HeaderComplete(hdr) =>
                 /\ IsExtended(hdr)
                 /\ GetLength(hdr) = 44
                 /\ hdr.nPayloadLength = U32Max
                 /\ hdr.extendedFields[1].nPayloadLength = sentMsg[1].size
                 /\ GetPayloadLength(hdr) = sentMsg[1].size
                 /\ GetCommand(hdr) = sentMsg[1].command
        ELSE /\ ~IsExtended(sentHdr)
             /\ U32ToU64(sentHdr.nPayloadLength) = sentMsg[1].size
             /\ SentHeaderSize = BASIC_HEADER_SIZE
             /\ SentHeaderSize = 24
             /\ GetHeaderSizeForPayload(sentMsg[1].size) = SentHeaderSize
             /\ HeaderComplete(hdr) => (~IsExtended(hdr) /\ GetLength(hdr) = 24)

\* The header of a message of 2^32 bytes was encoded and decoded.
C6_Witness ==
    /\ sentMsg # <<>>
    /\ sentMsg[1].size = <<0, 1, 0, 0>>
    /\ HeaderComplete(hdr)
    /\ IsExtended(hdr)
    /\ GetPayloadLength(hdr) = <<0, 1, 0, 0>>

\* C7: a complete header, received or built for sending, is extended exactly
\* when its basic length field is the sentinel 0xFFFFFFFF.
C7_SentinelDiscriminates ==
    /\ HeaderComplete(hdr) => (IsExtended(hdr) <=> hdr.nPayloadLength = U32Max)
    /\ (sentMsg # <<>> /\ HeaderComplete(sentHdr)) =>
        (IsExtended(sentHdr) <=> sentHdr.nPayloadLength = U32Max)

\* A header a peer sent with the sentinel and extended fields was parsed.
C7_Witness ==
    /\ sentMsg = <<>>
    /\ HeaderComplete(hdr)
    /\ hdr.nPayloadLength = U32Max
    /\ IsExtended(hdr)

\* C8: a message handed on with all its declared payload bytes buffered is
\* reported as ChecksumMismatch exactly when the first 4 bytes of the double
\* hash of the payload bytes on the wire differ from the checksum on the wire,
\* and then nothing is delivered; until it is handed on no mismatch is
\* reported.
C8_ChecksumMismatchReported ==
    /\ pc = "done" =>
        /\ Complete
        /\ dataBuff = SubSeq(wire, SentHeaderSize + 1, pos)
        /\ outcome = "ChecksumMismatch" <=>
            Take(Hash256(SubSeq(wire, SentHeaderSize + 1, pos)), CHECKSUM_SIZE)
                # sentHdr.pchChecksum
        /\ outcome = "ChecksumMismatch" => delivered = <<>>
    /\ pc # "done" => outcome # "ChecksumMismatch"

\* A message with a payload of the longest size and a wrong checksum was
\* reported.
C8_Witness ==
    /\ pc = "done"
    /\ outcome = "ChecksumMismatch"
    /\ Len(dataBuff) = MaxFollow
    /\ ~IsExtended(hdr)

\* C9: the header the send path builds carries the first 4 bytes of the hash
\* of the message; for a whole message these are, on the wire, the first 4
\* bytes of the double hash of the payload bytes that follow the header, and
\* the assembler fed with them never reports ChecksumMismatch.
C9_ChecksumRegenerated ==
    (pc # "idle" /\ sentMsg # <<>>) =>
        /\ GetChecksum(sentHdr) = Take(sentMsg[1].hash, CHECKSUM_SIZE)
        /\ outcome # "ChecksumMismatch"
        /\ WellFormedWire =>
            /\ SubSeq(wire, CHECKSUM_OFFSET + 1, CHECKSUM_OFFSET + CHECKSUM_SIZE)
                = Take(Hash256(SentFollow), CHECKSUM_SIZE)
            /\ pc = "done" => outcome = "Ok"

\* A ping with a payload was encoded, received byte by byte or in pieces and
\* accepted.
C9_Witness ==
    /\ WellFormedWire
    /\ sentMsg[1].command = PING
    /\ Len(sentMsg[1].data) > 0
    /\ ~offeredAll
    /\ pc = "done"
    /\ outcome = "Ok"

C12_MessageHashMemoised ==
    /\ \A i \in 1..Len(hashReturned) :
        /\ hashReturned[i] = Hash256(dataBuff)
        /\ hashReturned[i] = Hash256(SubSeq(wire, SentHeaderSize + 1, pos))
        /\ hashReturned[i] = hashReturned[1]
    /\ hashReturned # <<>> => (Complete /\ data_hash = hashReturned[1])
    /\ hashReturned = <<>> => IsNull(data_hash)
    /\ Complete => GetMessageHash(Msg) = Hash256(dataBuff)

\* GetMessageHash() was called twice on a message with the longest payload.
C12_Witness ==
    /\ Len(hashReturned) >= 2
    /\ Len(dataBuff) = MaxFollow
    /\ hashReturned[2] = Hash256(dataBuff)

\* C13: the maximum message length of a block-like command is the fixed
\* ceiling of one gigabyte whatever the configured maximum is, that of any
\* other message type is the configured maximum receive payload length, and a
\* header received with the right magic is rejected as oversized exactly when
\* it declares more than that.
C13_MaxMessageLength ==
    /\ \A c \in AllNetMessageTypes :
        IF c \in {BLOCK, MERKLEBLOCK, BLOCKTXN}
        THEN /\ IsBlockLike(c)
             /\ GetMaxMessageLength(c, maxRecvPayloadLength) = NatU64(ONE_GIGABYTE)
             /\ \A other \in ConfiguredMaxRecv :
                    GetMaxMessageLength(c, other) = GetMaxMessageLength(c, maxRecvPayloadLength)
        ELSE /\ ~IsBlockLike(c)
             /\ GetMaxMessageLength(c, maxRecvPayloadLength) = NatU64(maxRecvPayloadLength)
    /\ (pc # "idle" /\ HeaderComplete(hdr) /\ sentHdr.pchMessageStart = NetMagic
            /\ GetCommand(sentHdr) \in AllNetMessageTypes) =>
        LET ceiling == IF GetCommand(sentHdr) \in {BLOCK, MERKLEBLOCK, BLOCKTXN}
                       THEN NatU64(ONE_GIGABYTE)
                       ELSE NatU64(maxRecvPayloadLength)
        IN  /\ IsOversized(hdr, maxRecvPayloadLength)
                <=> U64Less(ceiling, GetPayloadLength(sentHdr))
            /\ outcome = "Oversized" <=> U64Less(ceiling, GetPayloadLength(sentHdr))

\* A block declaring more than the configured maximum and no more than the
\* fixed ceiling was accepted under the default configuration.
C13_Witness ==
    /\ maxRecvPayloadLength = DEFAULT_MAX_PROTOCOL_RECV_PAYLOAD_LENGTH
    /\ HeaderComplete(hdr)
    /\ GetCommand(hdr) = BLOCK
    /\ GetPayloadLength(hdr) = NatU64(ONE_GIGABYTE)
    /\ ~banPeer
    /\ Len(dataBuff) > 0

\* The size of an inv message of n items: 8 bytes of count and 36 bytes per
\* item, as an exact 64-bit number
InvMessageSize(n) ==
    LET low == n[2] * 36 + 8
        high == n[1] * 36 + (low \div Limb)
    IN  <<0, high \div Limb, high % Limb, low % Limb>>

\* C14: the count estimateMaxInvElements returns for a payload length makes
\* an inv message, 8 bytes of count and 36 bytes per item, no longer than that
\* payload length.
C14_EstimateFits ==
    estimate # <<>> => ~U64Less(U32ToU64(estimate[1]), InvMessageSize(estimate[2]))

\* C19: on the items of a vector, operator< and operator== of CInv make a
\* strict total order: of a < b, a == b, b < a exactly one holds, a < b and
\* b < c give a < c, the type is compared first and the hash second, a == b
\* holds only for equal type and hash; the sorted vector is a permutation of
\* the vector in ascending order, so three items A < B < C in any order are
\* sorted to A, B, C.
C19_InvStrictTotalOrder ==
    LET Items == {vInv[i] : i \in 1..Len(vInv)}
        HashBefore(x, y) ==
            \E i \in 1..32 : x[i] < y[i] /\ \A j \in 1..(i - 1) : x[j] = y[j]
        TypeBefore(x, y) ==
            x[1] < y[1] \/ (x[1] = y[1] /\ x[2] < y[2])
    IN  /\ \A a \in Items, b \in Items :
            /\ (IF InvLess(a, b) THEN 1 ELSE 0) + (IF InvEq(a, b) THEN 1 ELSE 0)
                + (IF InvLess(b, a) THEN 1 ELSE 0) = 1
            /\ InvEq(a, b) <=> a = b
            /\ TypeBefore(a.type, b.type) => InvLess(a, b)
            /\ (a.type = b.type) => (InvLess(a, b) <=> HashBefore(a.hash, b.hash))
        /\ \A a \in Items, b \in Items, c \in Items :
            (InvLess(a, b) /\ InvLess(b, c)) => InvLess(a, c)
        /\ vInvSorted # <<>> =>
            /\ Len(vInvSorted) = Len(vInv)
            /\ \E p \in [1..Len(vInv) -> 1..Len(vInv)] :
                /\ \A i, j \in 1..Len(vInv) : i # j => p[i] # p[j]
                /\ \A i \in 1..Len(vInv) : vInvSorted[i] = vInv[p[i]]
            /\ \A i, j \in 1..Len(vInvSorted) : i < j => ~InvLess(vInvSorted[j], vInvSorted[i])
            /\ Cardinality(Items) = 3 =>
                (InvLess(vInvSorted[1], vInvSorted[2]) /\ InvLess(vInvSorted[2], vInvSorted[3]))

\* Three items of one type were filled in descending order of their hashes
\* and sorted.
C19_Witness ==
    /\ Len(vInv) = 3
    /\ vInv[1].type = vInv[3].type
    /\ InvLess(vInv[3], vInv[2])
    /\ InvLess(vInv[2], vInv[1])
    /\ vInvSorted = <<vInv[3], vInv[2], vInv[1]>>

\* C20: for every item, IsTx() holds exactly when the type without its three
\* high bits is MSG_TX and IsSomeBlock() exactly when it is MSG_BLOCK,
\* MSG_FILTERED_BLOCK or MSG_CMPCT_BLOCK, and never both.
C20_InvClassification ==
    \A i \in 1..Len(vInv) :
        LET masked == <<vInv[i].type[1] % 8192, vInv[i].type[2]>>
        IN  /\ IsTx(vInv[i]) <=> masked = <<0, 1>>
            /\ IsSomeBlock(vInv[i]) <=> masked \in {<<0, 2>>, <<0, 3>>, <<0, 4>>}
            /\ ~(IsTx(vInv[i]) /\ IsSomeBlock(vInv[i]))

\* A vector holds a transaction and a block with experimental bits set and
\* an item whose type is MSG_TX in its low 16 bits only.
C20_Witness ==
    /\ Len(vInv) = 3
    /\ vInv[1].type = <<8192, 1>> /\ IsTx(vInv[1])
    /\ vInv[2].type = <<57344, 2>> /\ IsSomeBlock(vInv[2])
    /\ vInv[3].type = <<1, 1>> /\ ~IsTx(vInv[3])

\* The number of fields a stream starts with
WireFieldCount == ReadCompactSize(vRecv)

\* The bytes of a stream after its number of fields
WireFields == Drop(vRecv, CompactSizeLength(vRecv[1]))

\* The length a stream declares for its stream policies
WirePoliciesLength ==
    IF WireFields[5] < 253 THEN WireFields[5]
    ELSE WireFields[6] + 256 * WireFields[7]

\* Where the characters of the stream policies start in WireFields
WirePoliciesStart == IF WireFields[5] < 253 THEN 6 ELSE 8

\* The characters of the stream policies in a stream
WirePolicies ==
    SubSeq(WireFields, WirePoliciesStart, WirePoliciesStart + WirePoliciesLength - 1)

\* A stream was read that holds a number of fields, the length field and
\* all of a string
WireHasBothFields ==
    /\ protoconfState \in {"decoded", "decodeFailed"}
    /\ HoldsCompactSize(vRecv)
    /\ Len(WireFields) >= 5
    /\ Len(WireFields) >= WirePoliciesStart - 1
    /\ Len(WireFields) >= WirePoliciesStart + WirePoliciesLength - 1

\* C15: reading a protoconf with 0 fields fails; with 1 field and the 4 bytes
\* of the length field there it succeeds, sets maxRecvPayloadLength from them
\* and leaves streamPolicies empty; with 2 fields, the length field and a
\* string within the limit it succeeds and sets both from the stream.
C15_ProtoconfFieldCounts ==
    (protoconfState \in {"decoded", "decodeFailed"} /\ HoldsCompactSize(vRecv)) =>
        /\ WireFieldCount = 0 => protoconfState = "decodeFailed"
        /\ protoconfState = "decoded" => WireFieldCount > 0
        /\ (WireFieldCount = 1 /\ Len(WireFields) >= 4) =>
            /\ protoconfState = "decoded"
            /\ protoconf[1].maxRecvPayloadLength = ReadLE32(WireFields)
            /\ protoconf[1].streamPolicies = <<>>
            /\ nReadPos = 1 + 4
        /\ (WireFieldCount = 2 /\ WireHasBothFields
                /\ WirePoliciesLength <= StreamPoliciesLimit) =>
            /\ protoconfState = "decoded"
            /\ protoconf[1].maxRecvPayloadLength = ReadLE32(WireFields)
            /\ protoconf[1].streamPolicies = WirePolicies
            /\ nReadPos = 1 + 4 + (WirePoliciesStart - 5) + WirePoliciesLength

\* A protoconf with 1 field, followed by more bytes, was read.
C15_Witness ==
    /\ protoconfState = "decoded"
    /\ vRecv[1] = 1
    /\ Len(vRecv) > nReadPos
    /\ protoconf[1].maxRecvPayloadLength = NatU32(DEFAULT_MAX_PROTOCOL_RECV_PAYLOAD_LENGTH)
    /\ protoconf[1].streamPolicies = <<>>

\* C16: reading a protoconf with more than 2 fields, the length field and a
\* string within the limit succeeds, sets maxRecvPayloadLength and
\* streamPolicies as reading the same bytes with 2 fields does, and reads the
\* number of fields and the two fields only.
C16_ProtoconfForwardCompatible ==
    (WireHasBothFields /\ WireFieldCount > 2 /\ WirePoliciesLength <= StreamPoliciesLimit) =>
        LET two == ProtoconfUnserialize(CProtoconf_Default, <<2>> \o WireFields)
        IN  /\ protoconfState = "decoded"
            /\ ~two.failure
            /\ protoconf[1].maxRecvPayloadLength = two.protoconfRead.maxRecvPayloadLength
            /\ protoconf[1].streamPolicies = two.protoconfRead.streamPolicies
            /\ protoconf[1].maxRecvPayloadLength = ReadLE32(WireFields)
            /\ protoconf[1].streamPolicies = WirePolicies
            /\ nReadPos = CompactSizeLength(vRecv[1]) + 4
                            + (WirePoliciesStart - 5) + WirePoliciesLength
            /\ Len(vRecv) - nReadPos = Len(WireFields) - (two.numBytesRead - 1)

\* A protoconf announcing 300 fields, with "Default" as stream policies and
\* 4 more bytes, was read and the 4 bytes were left.
C16_Witness ==
    /\ protoconfState = "decoded"
    /\ HoldsCompactSize(vRecv)
    /\ WireFieldCount = 300
    /\ protoconf[1].streamPolicies = <<68, 101, 102, 97, 117, 108, 116>>
    /\ Len(vRecv) - nReadPos = 4

\* C17: what is written for a protoconf is the number of fields 2, the
\* length field and the stream policies.
C17_EncodeWritesTwoFields ==
    protoconfState \in {"encoded", "encodeFailed"} =>
        /\ protoconfState = "encoded"
        /\ vSend = <<2>> \o WriteLE32(protoconf[1].maxRecvPayloadLength)
                    \o WriteLimitedString(protoconf[1].streamPolicies)

\* C18: reading a protoconf with 2 or more fields whose string declares more
\* than (MAX_STREAM_POLICY_NAME_LENGTH + 1) * 10 characters fails and leaves
\* streamPolicies empty; a string of up to that many characters, all in the
\* stream, is read unchanged.
C18_StreamPoliciesBounded ==
    (protoconfState \in {"decoded", "decodeFailed"} /\ HoldsCompactSize(vRecv)
            /\ WireFieldCount >= 2 /\ Len(WireFields) >= 7) =>
        /\ WirePoliciesLength > (MAX_STREAM_POLICY_NAME_LENGTH + 1) * 10 =>
            /\ protoconfState = "decodeFailed"
            /\ protoconf[1].streamPolicies = <<>>
        /\ (WirePoliciesLength <= (MAX_STREAM_POLICY_NAME_LENGTH + 1) * 10
                /\ WireHasBothFields) =>
            /\ protoconfState = "decoded"
            /\ protoconf[1].streamPolicies = WirePolicies
            /\ Len(protoconf[1].streamPolicies) = WirePoliciesLength
        /\ protoconfState = "decoded" =>
            Len(protoconf[1].streamPolicies) <= (MAX_STREAM_POLICY_NAME_LENGTH + 1) * 10

\* A string of exactly the longest length was read.
C18_Witness ==
    /\ protoconfState = "decoded"
    /\ Len(protoconf[1].streamPolicies) = StreamPoliciesLimit
    /\ vRecv[1] = 2

\* The kind on the wire: the four type bytes of invStream, least significant
\* first, without the three highest bits
WireKind ==
    <<invStream[1], invStream[2], invStream[3], invStream[4] % 32>>

\* The kind on the wire is one of the enum values 0..4
WireKindKnown ==
    WireKind[1] <= MSG_CMPCT_BLOCK /\ WireKind[2] = 0 /\ WireKind[3] = 0 /\ WireKind[4] = 0

\* The type on the wire, all 32 bits, is one of the enum values 0..4
WireTypeKnown ==
    /\ invStream[1] <= MSG_CMPCT_BLOCK
    /\ invStream[2] = 0 /\ invStream[3] = 0 /\ invStream[4] = 0

\* C21, as stated: a stream holding an item whose 32-bit type is outside 0..4
\* is read into an item of that type and hash, and neither IsTx() nor
\* IsSomeBlock() holds of it.
C21_UnknownTypeUnclassified ==
    (Len(invStream) >= InvWireSize /\ ~WireTypeKnown) =>
        /\ invDecoded # <<>>
        /\ ~IsTx(invDecoded[1])
        /\ ~IsSomeBlock(invDecoded[1])

\* C21, amended: a stream holding an item whose kind, the 32-bit type without
\* its three highest bits, is outside 0..4 is read into an item of that type
\* and hash, and neither IsTx() nor IsSomeBlock() holds of it.
C21_UnknownKindUnclassified ==
    (Len(invStream) >= InvWireSize /\ ~WireKindKnown) =>
        /\ invDecoded # <<>>
        /\ WriteLE32(invDecoded[1].type) = Take(invStream, 4)
        /\ invDecoded[1].hash = SubSeq(invStream, 5, InvWireSize)
        /\ ~IsTx(invDecoded[1])
        /\ ~IsSomeBlock(invDecoded[1])

C21_Witness ==
    /\ Len(invStream) >= InvWireSize
    /\ ~WireKindKnown
    /\ invStream[4] >= 32
    /\ invDecoded # <<>>
    /\ invDecoded[1].type = <<8192, 5>>

\* C22: every message delivered to the dispatch collaborator has a payload of
\* exactly the length its header on the wire declares, made of the bytes that
\* followed that header, all of them consumed; and after a connection was
\* reset with a message in progress nothing was delivered.
C22_OnlyCompleteDelivered ==
    /\ \A i \in 1..Len(delivered) :
        /\ pc = "done"
        /\ NatU64(Len(delivered[i].payload)) = GetPayloadLength(sentHdr)
        /\ Len(delivered[i].payload) <= Len(SentFollow)
        /\ delivered[i].payload = Take(SentFollow, Len(delivered[i].payload))
        /\ pos = SentHeaderSize + Len(delivered[i].payload)
    /\ pc \in {"idle", "recv", "reset"} => delivered = <<>>

C22_Witness ==
    /\ pc = "reset"
    /\ pos > SentHeaderSize
    /\ U64Less(NatU64(pos - SentHeaderSize), GetPayloadLength(sentHdr))
    /\ ~banPeer
    /\ GetCommand(sentHdr) \in AllNetMessageTypes

RECURSIVE ReadAlone(_, _, _, _)
\* The assembler m of a connection and its position after the Read calls of
\* log that are the connection's own ran on it one after the other
ReadAlone(c, m, consumed, log) ==
    IF log = <<>> THEN <<m, consumed>>
    ELSE IF log[1][1] # c THEN ReadAlone(c, m, consumed, Tail(log))
    ELSE LET r == CNetMessage_Read(m, maxRecvPayloadLength,
                                   SubSeq(connWire[c], consumed + 1, consumed + log[1][2]))
         IN  ReadAlone(c, r.msg, consumed + r.handled, Tail(log))

HoldsMutex(t) == rlPc[t] \in {"locked", "dtor", "restored"}

\* C24: while the reverse_lock of a thread exists, the thread's Lock does not
\* own the mutex and the thread does not hold it; after the destructor has
\* returned the Lock owns the mutex again and the thread holds it; and a
\* thread inside the region its Lock guards is the one holder of the mutex,
\* so no two threads are inside together.
C24_ReverseLock ==
    /\ \A t \in Threads :
        /\ rlPc[t] = "reversed" => (~OwnsLock(lock[t]) /\ mutex # t)
        /\ rlPc[t] = "restored" => (OwnsLock(lock[t]) /\ templock[t] = NoLock)
        /\ HoldsMutex(t) => mutex = t
    /\ \A t \in Threads, u \in Threads : (HoldsMutex(t) /\ HoldsMutex(u)) => t = u

\* While the reverse_locks of threads 1 and 3 exist, thread 2 has acquired
\* the mutex
C24_Witness ==
    /\ rlPc[1] = "reversed"
    /\ rlPc[2] = "locked"
    /\ mutex = 2
    /\ rlPc[3] = "reversed"

\* C25: an operator bool() called after an operator()() has returned and
\* before any reset() since returns true; one called after a reset() and
\* before any operator()() since, none running at the reset either, returns
\* false.
C25_FlagFollowsCalls ==
    boolRead # <<>> =>
        /\ boolRead[1] => boolRead[3]
        /\ boolRead[2] => ~boolRead[3]

\* true was read after an interrupt, and then false after a reset
C25_Witness ==
    /\ boolRead = <<FALSE, TRUE, FALSE>>
    /\ sleepReturned[1] = "interrupted"
    /\ resetQuiet

C27_AppendCommand ==
    appended # <<>> =>
        LET name == appended[1]
            pcmd == appended[2]
            before == appended[3]
            running == appended[4]
            returned == appended[5]
        IN  /\ (running \/ name \in DOMAIN before) =>
                (~returned /\ mapCommands = before)
            /\ ~(running \/ name \in DOMAIN before) =>
                /\ returned
                /\ DOMAIN mapCommands = DOMAIN before \cup {name}
                /\ mapCommands[name] = pcmd
            /\ \A n \in DOMAIN before :
                n \in DOMAIN mapCommands /\ mapCommands[n] = before[n]

\* With the server stopped, a name registered with one command was appended
\* with another and refused
C27_Witness ==
    /\ appended # <<>>
    /\ ~appended[4]
    /\ appended[1] \in DOMAIN appended[3]
    /\ appended[3][appended[1]] # appended[2]
    /\ ~appended[5]
    /\ DOMAIN mapCommands = RpcNames

\* The phase of the assembler: 0 while the header is incomplete, 1 while
\* payload bytes are missing, 2 when the message is complete
AssemblerPhase ==
    IF ~hdr.complete THEN 0
    ELSE IF GetPayloadLength(hdr) = NatU64(Len(dataBuff)) THEN 2
    ELSE 1

\* C28: in every step the phase of the assembler does not go back; a
\* complete header stays as it is; while the header is incomplete the running
\* hash is not touched and the buffer holds nothing but the header bytes
\* received; with a complete header the buffer only grows, by the bytes
\* consumed from the wire, and the running hash is extended by exactly these
\* bytes.
C28_AssemblerMovesForward ==
    [][/\ AssemblerPhase' >= AssemblerPhase
       /\ hdr.complete => hdr' = hdr
       /\ ~hdr.complete =>
            /\ hasher' = hasher
            /\ dataBuff' = IF hdr'.complete THEN <<>> ELSE Take(wire', pos')
       /\ hdr.complete =>
            /\ Len(dataBuff') >= Len(dataBuff)
            /\ Take(dataBuff', Len(dataBuff)) = dataBuff
            /\ Drop(dataBuff', Len(dataBuff)) = SubSeq(wire, pos + 1, pos')
            /\ hasher' = HashWrite(hasher, Drop(dataBuff', Len(dataBuff)))]_vars

\* A message was assembled in several Read calls: the header is complete and
\* the longest payload is buffered and hashed
C28_Witness ==
    /\ pc = "recv"
    /\ ~offeredAll
    /\ AssemblerPhase = 2
    /\ Len(dataBuff) = MaxFollow
    /\ hasher = HashWrite(HashInit, dataBuff)
    /\ hasher # HashInit

\* The basic length field on the wire is the sentinel 0xFFFFFFFF
WireSentinel ==
    /\ Len(wire) >= 20
    /\ SubSeq(wire, 17, 20) = <<255, 255, 255, 255>>

\* The number of bytes of the header on the wire: 24, or 44 with the sentinel
WireHeaderEnd == IF WireSentinel THEN 44 ELSE 24

\* C29: while fewer than 24 bytes were consumed the header is not
\* Complete(); any Read call the connection can make then, offered bytes that
\* leave the total below 24, returns the number offered and leaves the header
\* incomplete; and a Read call after which the header is complete returns the
\* number of bytes up to the end of the header, however many were offered.
C29_HeaderBytesConsumed ==
    /\ (pc # "idle" /\ pos < 24) => ~HeaderComplete(hdr)
    /\ (pc = "recv" /\ ~banPeer /\ ~hdr.complete) =>
        \A nBytes \in 1..(Len(wire) - pos) :
            LET r == CNetMessage_Read(Msg, maxRecvPayloadLength,
                                      SubSeq(wire, pos + 1, pos + nBytes))
            IN  /\ pos + nBytes < 24 =>
                    (r.handled = nBytes /\ ~HeaderComplete(r.msg.hdr))
                /\ HeaderComplete(r.msg.hdr) =>
                    (r.handled = WireHeaderEnd - pos /\ r.handled <= nBytes)

\* A header arrived in three Read calls or more: 23 bytes of it were consumed
\* and the next call is offered the last header byte and the payload
C29_Witness ==
    /\ pc = "recv"
    /\ pos = 23
    /\ ~offeredAll
    /\ ~HeaderComplete(hdr)
    /\ Len(dataBuff) = 23
    /\ Len(wire) = 24 + MaxFollow

\* C30: with the sentinel in the basic length field on the wire, the header
\* is Complete() exactly when 44 bytes were consumed; before that nothing
\* but the header bytes received is buffered, the message is not complete and
\* nothing is delivered, and so it remains when the wire ends before byte 44.
C30_SentinelNeedsExtendedFields ==
    (pc # "idle" /\ WireSentinel) =>
        /\ HeaderComplete(hdr) <=> pos >= 44
        /\ pos <= 44 \/ HeaderComplete(hdr)
        /\ pos < 44 =>
            /\ dataBuff = Take(wire, pos)
            /\ hasher = HashInit
            /\ ~Complete
            /\ delivered = <<>>
            /\ pc # "done"
        /\ Len(wire) < 44 => (~HeaderComplete(hdr) /\ pc # "done")

\* A peer sent the sentinel and ended the stream two bytes after the basic
\* header: all 26 bytes were consumed and the header is not complete
C30_Witness ==
    /\ WireSentinel
    /\ Len(wire) = 24 + 2
    /\ pos = Len(wire)
    /\ ~HeaderComplete(hdr)
    /\ ~banPeer

\* The peer sent the extended fields after the basic header
SentExtended == pc # "idle" /\ sentHdr.extendedFields # <<>>

\* The ceiling for the extended command and the extended length the peer sent
SentExtendedLimit ==
    IF CommandString(sentHdr.extendedFields[1].pchCommand) \in {BLOCK, MERKLEBLOCK, BLOCKTXN}
    THEN NatU64(ONE_GIGABYTE)
    ELSE NatU64(maxRecvPayloadLength)

\* Basic headers that differ from h in the basic command and the basic length
BasicVariants(h) ==
    {[h EXCEPT !.pchCommand = c, !.nPayloadLength = l] :
        c \in {PadCommand(EXTMSG), PadCommand(PING), PadCommand(BLOCK)},
        l \in {NatU32(0), NatU32(Len(dataBuff)), NatU32(maxRecvPayloadLength + 1), U32Max}}

\* C31: once an extended header is complete, GetPayloadLength() is the 8-byte
\* extended length the peer sent and GetCommand() its extended command; the
\* header is oversized exactly when that length exceeds the ceiling of that
\* command, the peer is banned as oversized exactly then (the magic being
\* right), the assembler is Complete() exactly when it buffers that many
\* bytes, and none of the three changes with the basic command or the basic
\* length.
C31_ExtendedFieldsAuthoritative ==
    (SentExtended /\ HeaderComplete(hdr)) =>
        LET e == sentHdr.extendedFields[1]
            over == U64Less(SentExtendedLimit, e.nPayloadLength)
        IN  /\ GetPayloadLength(hdr) = e.nPayloadLength
            /\ GetCommand(hdr) = CommandString(e.pchCommand)
            /\ IsOversized(hdr, maxRecvPayloadLength) <=> over
            /\ (outcome = "Oversized") <=> (over /\ sentHdr.pchMessageStart = NetMagic)
            /\ Complete <=> NatU64(Len(dataBuff)) = e.nPayloadLength
            /\ \A h \in BasicVariants(hdr) :
                /\ GetPayloadLength(h) = GetPayloadLength(hdr)
                /\ IsOversized(h, maxRecvPayloadLength) = IsOversized(hdr, maxRecvPayloadLength)
                /\ CNetMessage_Complete(h, dataBuff) = Complete

\* A peer sent the basic command "block" with the sentinel, then the extended
\* command "ping" and an extended length of 2^32: the header was read and
\* the peer is banned for the oversized message
C31_Witness ==
    /\ SentExtended
    /\ HeaderComplete(hdr)
    /\ CommandString(hdr.pchCommand) = BLOCK
    /\ GetCommand(hdr) = PING
    /\ sentHdr.extendedFields[1].nPayloadLength = <<0, 1, 0, 0>>
    /\ outcome = "Oversized"

\* The payload length the header on the wire declares: the extended length
\* after the sentinel, the basic length otherwise
WireDeclared ==
    IF WireSentinel
    THEN ReadLE64(SubSeq(wire, 37, 44))
    ELSE U32ToU64(ReadLE32(SubSeq(wire, 17, 20)))

\* k bytes or more of the message on the wire are still missing after the
\* first consumed bytes; a header that is not all there leaves its own bytes
\* missing, and a declared length of 2^16 or more exceeds every wire
StillMissing(k, consumed) ==
    IF Len(wire) < WireHeaderEnd
    THEN k <= WireHeaderEnd - consumed
    ELSE \/ WireDeclared[1] # 0 \/ WireDeclared[2] # 0 \/ WireDeclared[3] # 0
         \/ k <= WireHeaderEnd + WireDeclared[4] - consumed

\* C32: with a complete header the buffered payload bytes never exceed the
\* declared payload length; every Read call the connection can make returns
\* at most the number of bytes offered and at most the number of bytes the
\* message on the wire still misses; and the bytes consumed never reach
\* beyond the end of that message.
C32_ReadBounded ==
    /\ (pc # "idle" /\ HeaderComplete(hdr)) =>
            ~U64Less(GetPayloadLength(hdr), NatU64(Len(dataBuff)))
    /\ pc # "idle" => StillMissing(0, pos)
    /\ (pc = "recv" /\ ~banPeer /\ ~Complete) =>
        \A nBytes \in 1..(Len(wire) - pos) :
            LET r == CNetMessage_Read(Msg, maxRecvPayloadLength,
                                      SubSeq(wire, pos + 1, pos + nBytes))
            IN  /\ r.handled <= nBytes
                /\ StillMissing(r.handled, pos)
                /\ HeaderComplete(r.msg.hdr) =>
                        ~U64Less(GetPayloadLength(r.msg.hdr), NatU64(Len(r.msg.dataBuff)))

\* A message of one payload byte is complete while the bytes after it on the
\* wire, offered in the same Read call, were left unconsumed
C32_Witness ==
    /\ pc = "recv"
    /\ Complete
    /\ Len(dataBuff) = 1
    /\ pos = 24 + 1
    /\ Len(wire) = 24 + MaxFollow
    /\ ~banPeer

\* The header on the wire is all there and declares a payload length of 0
WireDeclaresEmpty ==
    /\ pc # "idle"
    /\ Len(wire) >= WireHeaderEnd
    /\ WireDeclared = NatU64(0)

\* C33: a Read call that completes a header declaring payload length 0
\* leaves the message Complete(), with no byte consumed beyond the header;
\* so it is in every state with such a header; and while the header is not
\* complete the message is not Complete().
C33_EmptyPayloadComplete ==
    /\ (pc # "idle" /\ ~HeaderComplete(hdr)) => ~Complete
    /\ (WireDeclaresEmpty /\ HeaderComplete(hdr)) =>
        /\ Complete
        /\ dataBuff = <<>>
        /\ pos = WireHeaderEnd
    /\ (WireDeclaresEmpty /\ pc = "recv" /\ ~HeaderComplete(hdr)) =>
        \A nBytes \in 1..(Len(wire) - pos) :
            LET r == CNetMessage_Read(Msg, maxRecvPayloadLength,
                                      SubSeq(wire, pos + 1, pos + nBytes))
            IN  /\ ~HeaderComplete(r.msg.hdr) =>
                    ~CNetMessage_Complete(r.msg.hdr, r.msg.dataBuff)
                /\ HeaderComplete(r.msg.hdr) =>
                    CNetMessage_Complete(r.msg.hdr, r.msg.dataBuff)

\* A ping with no payload arrived in one Read call together with the bytes
\* after it: the message is complete and those bytes are unconsumed
C33_Witness ==
    /\ WireDeclaresEmpty
    /\ pc = "recv"
    /\ offeredAll
    /\ Complete
    /\ GetCommand(hdr) = PING
    /\ pos = 24
    /\ Len(wire) = 24 + MaxFollow
    /\ ~banPeer

\* C34: once BanPeer was thrown for a header (bad magic or oversized), the
\* assembler does not report Complete(), whatever payload length the header
\* declares, and nothing is handed to dispatch.
C34_RejectedNeverComplete ==
    (pc # "idle" /\ banPeer) =>
        /\ ~Complete
        /\ delivered = <<>>
        /\ pc # "done"

\* C35: reading a stream that announces 0 fields into an object constructed
\* before fails and leaves maxRecvPayloadLength and streamPolicies of the
\* object as they were; reading a stream that announces 1 field leaves
\* streamPolicies of the object as it was.
C35_DecodeLeavesFields ==
    [][(/\ protoconfState = "constructed"
        /\ protoconfState' \in {"redecoded", "redecodeFailed"}
        /\ HoldsCompactSize(vRecv')) =>
            /\ ReadCompactSize(vRecv') = 0 =>
                /\ protoconfState' = "redecodeFailed"
                /\ protoconf'[1].maxRecvPayloadLength = protoconf[1].maxRecvPayloadLength
                /\ protoconf'[1].streamPolicies = protoconf[1].streamPolicies
            /\ ReadCompactSize(vRecv') = 1 =>
                protoconf'[1].streamPolicies = protoconf[1].streamPolicies]_vars

\* A stream announcing 0 fields was read into an object that held a length
\* and "Default" as stream policies, and the object still holds both
C35_Witness ==
    /\ protoconfState = "redecodeFailed"
    /\ Len(vRecv) > 5
    /\ vRecv[1] = 0
    /\ protoconf[1].numberOfFields = 0
    /\ protoconf[1].maxRecvPayloadLength = <<Limb - 1, Limb - 3>>
    /\ protoconf[1].streamPolicies = <<68, 101, 102, 97, 117, 108, 116>>

\* The slots of an interface on a signal
SlotsOf(signals, signal, pwalletIn) ==
    SelectSeq(signals[signal], LAMBDA slot : slot[2] = pwalletIn)

\* The signals RegisterValidationInterface connects
RegisteredSignals == {RegisterSlots[k][1] : k \in 1..Len(RegisterSlots)}

\* C36: after every call, an interface whose last call was
\* UnregisterValidationInterface or UnregisterAllValidationInterfaces has no
\* slot on any signal that RegisterValidationInterface connects, however many
\* times it was registered; UnregisterValidationInterface leaves the slots of
\* every other interface on every signal as they were; and after
\* UnregisterAllValidationInterfaces no such signal has a slot.
C36_UnregisterDisconnects ==
    [][/\ \A pwalletIn \in ValidationInterfaces :
            lastCall'[pwalletIn][1] \in {"unregister", "unregisterAll"} =>
                \A signal \in RegisteredSignals :
                    SlotsOf(g_signals', signal, pwalletIn) = <<>>
       /\ \A pwalletIn \in ValidationInterfaces :
            (lastCall'[pwalletIn][1] = "unregister" /\ lastCall'[pwalletIn] # lastCall[pwalletIn]) =>
                \A other \in ValidationInterfaces \ {pwalletIn}, signal \in Signals :
                    SlotsOf(g_signals', signal, other) = SlotsOf(g_signals, signal, other)
       /\ (\A pwalletIn \in ValidationInterfaces : lastCall'[pwalletIn][1] = "unregisterAll") =>
            \A signal \in RegisteredSignals : g_signals'[signal] = <<>>]_vars

\* The wallet was registered twice and then unregistered while the ZMQ
\* notifier, registered between the two, stays registered
C36_Witness ==
    /\ lastCall["wallet"] = <<"unregister", 2>>
    /\ lastCall["zmq"] = <<"register", 0>>
    /\ g_signals["TransactionAddedToMempool"] =
            << <<"TransactionAddedToMempool", "zmq">>, <<"TransactionAdded", "zmq">> >>
    /\ g_signals["UpdatedBlockTip"] = << <<"UpdatedBlockTip", "zmq">> >>

=============================================================================
